---- MODULE Spec2Model ----
(***************************************************************************)
(* Model of the Loan Account Creation Journey (22 serial Playwright tests, *)
(* "Step 1" .. "Step 16"), of LoanAccountCreationHelper, which signs and   *)
(* sends each request, of the DSP request signer and its clock             *)
(* (utils/dspAuth.ts), of the 'LOS Login Flow' group, of BaseHelper with   *)
(* LOSHelper and LMSHelper, and of ResponseValidator.validateStatus.       *)
(***************************************************************************)
EXTENDS Integers, Sequences, FiniteSets, TLC

VARIABLES
  fixture,    \* loanAccountData: the loaded test fixture (never written)
  isCI,       \* process.env.CI, read by playwright.config.ts
  attempt,    \* number of retries of the serial group done so far
  phase,      \* position of the serial group in its run
  cur,        \* index (1..22) of the test the group is at
  slots,      \* the module-level reference-id variables of the spec file
  request,    \* the request the current step handed to the HTTP layer
  response,   \* the ApiResponse (or thrown error) the current step got
  calls,      \* steps whose HTTP call was issued in this attempt, in order
  failedAt,   \* index of the test that failed in this attempt, 0 if none
  apiContext, \* the APIRequestContext of beforeAll / afterAll
  nulls,      \* number of null identifiers the server has answered with
  errorLog,   \* what the helper's catch block wrote to the logger
  signLog,    \* the calls of generateSignature made so far, with results
  hmacObj,    \* the crypto Hmac object of the latest generateSignature call
  flow,       \* the 'LOS Login Flow' serial group: runner, context, tokens
  helpers,    \* the helper instances (LOSHelper / LMSHelper) and their tokens
  lastOp,     \* the latest helper operation, with what it sent and returned
  clock,      \* the system clock read by new Date()
  tsLog,      \* the calls of getCurrentTimestamp made so far, with results
  hdrLog,     \* the calls of generateDspAuthHeaders made so far, with results
  valLog,     \* the calls of ResponseValidator.validateStatus, with results
  pathLog,    \* the calls of replacePathParams made so far, with results
  imgLog      \* the image files Step 6 was run with, and what it sent

vars == <<fixture, isCI, attempt, phase, cur, slots, request, response,
          calls, failedAt, apiContext, nulls, errorLog, signLog, hmacObj,
          flow, helpers, lastOp, clock, tsLog, hdrLog, valLog, pathLog,
          imgLog>>

journeyVars == <<fixture, isCI, attempt, phase, cur, slots, request, response,
                 calls, failedAt, apiContext, nulls, errorLog>>

signVars == <<signLog, hmacObj>>

flowVars == <<flow>>

helperVars == <<helpers, lastOp>>

clockVars == <<clock, tsLog, hdrLog>>

utilVars == <<valLog, pathLog, imgLog>>

\* what an action of one part of the model leaves alone
nonJourneyVars == <<signVars, flowVars, helperVars, clockVars, utilVars>>
nonSignVars == <<journeyVars, flowVars, helperVars, clockVars, utilVars>>
nonFlowVars == <<journeyVars, signVars, helperVars, clockVars, utilVars>>
nonHelperVars == <<journeyVars, signVars, flowVars, clockVars, utilVars>>
nonClockVars == <<journeyVars, signVars, flowVars, helperVars, utilVars>>
nonUtilVars == <<journeyVars, signVars, flowVars, helperVars, clockVars>>

-----------------------------------------------------------------------------
(* JavaScript values of the identifiers                                    *)

Undef == "<undefined>"
Null == "<null>"

\* the most null identifiers the server answers with in one run
MaxNulls == 1

\* JavaScript truthiness of an identifier value: if (x) { ... }
Truthy(v) == v # Undef /\ v # Null /\ v # ""

ToBeDefinedAlways(v) == TRUE

\* expect(v).toBeDefined(): passes for everything but undefined
ToBeDefined(v) == v # Undef

\* { ...a, ...b }: object spread, the later source wins on a shared key
Spread(a, b) ==
  [k \in (DOMAIN a) \cup (DOMAIN b) |-> IF k \in DOMAIN b THEN b[k] ELSE a[k]]

EmptyObject == [k \in {} |-> Undef]

\* a single-key object literal { k: v }
Obj(k, v) == [x \in {k} |-> v]

\* the optional body argument of a helper call or of the signer
NoBody == [present |-> FALSE, json |-> EmptyObject]
Body(json) == [present |-> TRUE, json |-> json]

-----------------------------------------------------------------------------
(* The journey: the tests of the serial group in declaration order         *)

NumSteps == 22

StepName ==
  <<"Step 1", "Step 2", "Step 3", "Step 4", "Step 5", "Step 6", "Step 6.1",
    "Step 7", "Step 8", "Step 9", "Step 10", "Step 11", "Step 12", "Step 13",
    "Step 14", "Step 14.1", "Step 15", "Step 15.1", "Step 15.2", "Step 15.3",
    "Step 15.4", "Step 16">>

\* index of the test with the given title
Idx(name) == CHOOSE i \in 1..NumSteps : StepName[i] = name

SlotNames ==
  {"opportunityId", "utilityReferenceId", "photoVerificationReferenceId",
   "additionalDataReferenceId", "bankUtilityReferenceId", "mandateReferenceId",
   "verificationLogReferenceId", "mobileVerificationLogReferenceId",
   "agreementReferenceId", "kfsReferenceId", "newKfsReferenceId",
   "newAgreementReferenceId"}

\* let x: string;  (declared, not initialised)
EmptySlots == [s \in SlotNames |-> Undef]

-----------------------------------------------------------------------------
(* The fixture (testdata/los/loanAccountCreation.json) is an input.  Every *)
(* step's testData.request is the same template here; requiresId7 says     *)
(* whether saveAdditionalData.expectedResponse.requiredFields lists        *)
(* utilityReferenceId.                                                     *)

PlainTemplate == Obj("amount", "FIX-AMOUNT")

\* a template that also carries keys the tests set from the slots
OverlappingTemplate ==
  Spread(PlainTemplate,
         Spread(Obj("opportunityId", "FIX-OPP"),
                Spread(Obj("emailVerificationLogId", "FIX-LOG"),
                       Obj("verifiedValue", "FIX-PHONE"))))

Templates == {PlainTemplate, OverlappingTemplate}

Fixtures == [request : Templates, requiresId7 : BOOLEAN]

\* loanAccountData.userDetails.automationMockUser
selectedUser == [pan |-> "PAN", phone |-> "PHONE"]

-----------------------------------------------------------------------------
(* What each test passes to its helper method: the path parameter (or      *)
(* "none") and the request payload (or no payload), built from the slots s *)
(* and the fixture fx in the order the source builds them.                 *)

NoParam == "none"

Args(param, body) == [param |-> param, body |-> body]

Step15Body(s, fx) ==
  Spread(
    Spread(
      [k \in {"kfsRequest." \o x : x \in DOMAIN fx.request} |->
         fx.request[CHOOSE x \in DOMAIN fx.request : "kfsRequest." \o x = k]],
      Obj("kfsRequest.emailVerificationLogId", s["verificationLogReferenceId"])),
    Spread(
      Spread(Obj("agreementRequest.kycReferenceId", s["utilityReferenceId"]),
             Obj("agreementRequest.additionalUtilityReferenceId",
                 s["additionalDataReferenceId"])),
      Spread(Obj("agreementRequest.photoUtilityReferenceId",
                 s["photoVerificationReferenceId"]),
             Spread(Obj("agreementRequest.bankAccountReferenceId",
                        s["bankUtilityReferenceId"]),
                    Obj("redirectionUrl", "FIX-URL")))))

Step153Body(s) ==
  [k \in {"opportunityId", "kycReferenceId", "additionalUtilityReferenceId",
          "bankAccountReferenceId", "kfsReferenceId", "photoUtilityReferenceId"} |->
     CASE k = "opportunityId" -> s["opportunityId"]
       [] k = "kycReferenceId" -> s["utilityReferenceId"]
       [] k = "additionalUtilityReferenceId" -> s["additionalDataReferenceId"]
       [] k = "bankAccountReferenceId" -> s["bankUtilityReferenceId"]
       [] k = "kfsReferenceId" -> s["newKfsReferenceId"]
       [] k = "photoUtilityReferenceId" -> s["photoVerificationReferenceId"]]

Step16BodyOld(s) ==
  [k \in {"BANK_ACCOUNT", "AGREEMENT", "KFS", "MANDATE", "ADDITIONAL_DATA", "KYC",
          "PHOTO_VERIFICATION", "MOBILE_VERIFICATION_LOG",
          "EMAIL_VERIFICATION_LOG"} |->
     CASE k = "BANK_ACCOUNT" -> s["bankUtilityReferenceId"]
       [] k = "AGREEMENT" -> s["agreementReferenceId"]
       [] k = "KFS" -> s["kfsReferenceId"]
       [] k = "MANDATE" -> s["mandateReferenceId"]
       [] k = "ADDITIONAL_DATA" -> s["additionalDataReferenceId"]
       [] k = "KYC" -> s["utilityReferenceId"]
       [] k = "PHOTO_VERIFICATION" -> s["photoVerificationReferenceId"]
       [] k = "MOBILE_VERIFICATION_LOG" -> s["mobileVerificationLogReferenceId"]
       [] k = "EMAIL_VERIFICATION_LOG" -> s["verificationLogReferenceId"]]

\* submittedDataList, as the map dataType -> referenceId
Step16Body(s) ==
  [k \in {"BANK_ACCOUNT", "AGREEMENT", "KFS", "MANDATE", "ADDITIONAL_DATA", "KYC",
          "PHOTO_VERIFICATION", "MOBILE_VERIFICATION_LOG",
          "EMAIL_VERIFICATION_LOG"} |->
     CASE k = "BANK_ACCOUNT" -> s["bankUtilityReferenceId"]
       [] k = "AGREEMENT" -> s["newAgreementReferenceId"]
       [] k = "KFS" -> s["newKfsReferenceId"]
       [] k = "MANDATE" -> s["mandateReferenceId"]
       [] k = "ADDITIONAL_DATA" -> s["additionalDataReferenceId"]
       [] k = "KYC" -> s["utilityReferenceId"]
       [] k = "PHOTO_VERIFICATION" -> s["photoVerificationReferenceId"]
       [] k = "MOBILE_VERIFICATION_LOG" -> s["mobileVerificationLogReferenceId"]
       [] k = "EMAIL_VERIFICATION_LOG" -> s["verificationLogReferenceId"]]

\* Step 6: { opportunityId, userImage, customerConsent }
Step6Body(s, userImage) ==
  Spread(Obj("opportunityId", s["opportunityId"]),
         Spread(Obj("userImage", userImage),
                Obj("customerConsent", "FIX-CONSENT")))

HelperArgs(i, s, fx) ==
  LET opp == Obj("opportunityId", s["opportunityId"])
      pan == Obj("pan", selectedUser.pan)
      n == StepName[i]
  IN CASE n = "Step 1" -> Args(NoParam, Body(Spread(pan, fx.request)))
       [] n = "Step 2" -> Args(NoParam, Body(Spread(pan, fx.request)))
       [] n = "Step 3" ->
            Args(NoParam,
                 Body(Spread(Spread(pan, Obj("phoneNumber", selectedUser.phone)),
                             fx.request)))
       [] n = "Step 4" -> Args(NoParam, Body(Spread(opp, fx.request)))
       [] n = "Step 5" -> Args(s["utilityReferenceId"], NoBody)
       [] n = "Step 6" -> Args(NoParam, Body(Step6Body(s, "FIX-IMAGE")))
       [] n = "Step 6.1" -> Args(s["photoVerificationReferenceId"], NoBody)
       [] n = "Step 7" -> Args(NoParam, Body(Spread(opp, fx.request)))
       [] n = "Step 8" -> Args(s["additionalDataReferenceId"], NoBody)
       [] n = "Step 9" -> Args(NoParam, Body(Spread(opp, fx.request)))
       [] n = "Step 10" -> Args(s["bankUtilityReferenceId"], NoBody)
       [] n = "Step 11" ->
            Args(NoParam,
                 Body(Spread(Spread(opp, Obj("bankAccountVerificationId",
                                             s["bankUtilityReferenceId"])),
                             fx.request)))
       [] n = "Step 12" -> Args(s["mandateReferenceId"], NoBody)
       [] n = "Step 13" -> Args(NoParam, Body(Spread(opp, fx.request)))
       [] n = "Step 14" -> Args(s["verificationLogReferenceId"], NoBody)
       [] n = "Step 14.1" ->
            Args(NoParam,
                 Body(Spread(Spread(opp, fx.request),
                             Obj("verifiedValue", selectedUser.phone))))
       [] n = "Step 15" -> Args(s["opportunityId"], Body(Step15Body(s, fx)))
       [] n = "Step 15.1" ->
            Args(NoParam,
                 Body(Spread(Spread(opp, fx.request),
                             Obj("emailVerificationLogId",
                                 s["verificationLogReferenceId"]))))
       [] n = "Step 15.2" ->
            Args(s["newKfsReferenceId"], Body(Spread(EmptyObject, fx.request)))
       [] n = "Step 15.3" -> Args(NoParam, Body(Step153Body(s)))
       [] n = "Step 15.4" -> Args(s["newAgreementReferenceId"], Body(EmptyObject))
       [] n = "Step 16" -> Args(s["opportunityId"], Body(Step16Body(s)))

-----------------------------------------------------------------------------
(* LoanAccountCreationHelper: every method signs, then sends               *)

GetSteps ==
  {Idx("Step 5"), Idx("Step 6.1"), Idx("Step 8"), Idx("Step 10"),
   Idx("Step 12"), Idx("Step 14")}

Method(i) == IF i \in GetSteps THEN "GET" ELSE "POST"

SignedBodyEmptyForGet(i, args) ==
  IF Method(i) = "GET" THEN Body(EmptyObject) ELSE args.body

\* the second argument of generateDspAuthHeaders in the step's helper method
SignedBody(i, args) == IF Method(i) = "GET" THEN NoBody ELSE args.body

\* the data option of this.request.post / get in the step's helper method
SentData(i, args) == IF Method(i) = "GET" THEN NoBody ELSE args.body

Timestamps ==
  { <<"2","0","2","6","0","1","2","0","1","5","0","9","0","0">>,
    <<"2","0","2","6","0","1","2","0","1","5","0","9","0","1">> }

\* this.dspSecretKey = getDspSecretKey()
DspSecretKey == "secret"

\* generateDspAuthHeaders(this.dspSecretKey, body) as the helper method sees
\* it: the timestamp read at the call and the signature of that timestamp,
\* the key and the body handed over, kept as the term of its three inputs
SignedHeaders(secretKey, body, timestamp) ==
  [h \in {"X-Timestamp", "X-Signature"} |->
     IF h = "X-Timestamp" THEN timestamp
     ELSE [hmac |-> "sha256", secretKey |-> secretKey,
           timestamp |-> timestamp, requestBody |-> body]]

\* kfsData.requester
Requester(args) ==
  IF args.body.present /\ "requester" \in DOMAIN args.body.json
  THEN args.body.json["requester"] ELSE Undef

\* the headers a helper method writes before it spreads the auth headers
StepHeaders(i, args) ==
  LET n == StepName[i]
      base == Spread(Obj("Content-Type", "application/json"),
                     Obj("X-SourcingChannelCode", "DSP-UAT"))
  IN CASE n = "Step 15" -> Spread(base, Obj("X-RequestSource", "SYSTEM"))
       [] n = "Step 15.1" -> Spread(base, Obj("requester", Requester(args)))
       [] n = "Step 15.2" ->
            Spread(Spread(base, Obj("requester", "DSP-UAT")),
                   Obj("X-Client-Ip", "192.168.1.1"))
       [] n \in {"Step 15.3", "Step 15.4"} ->
            Spread(base, Obj("requester", "DSP-UAT"))
       [] OTHER -> base

HelperHeadersUnsigned(i, args, auth) == StepHeaders(i, args)

\* headers: { 'Content-Type': ..., 'X-SourcingChannelCode': ..., [the step's
\* own headers,] ...dspAuthHeaders }
HelperHeaders(i, args, auth) == Spread(StepHeaders(i, args), auth)

HelperRequest(i, args, timestamp) ==
  [step |-> i, method |-> Method(i), param |-> args.param,
   signed |-> SignedBody(i, args), data |-> SentData(i, args),
   headers |-> HelperHeaders(i, args,
                 SignedHeaders(DspSecretKey, SignedBody(i, args), timestamp))]

NoRequest ==
  [step |-> 0, method |-> "none", param |-> NoParam, signed |-> NoBody,
   data |-> NoBody, headers |-> EmptyObject]

-----------------------------------------------------------------------------
(* The server's answer to a step, as far as the test's assertions see it:  *)
(*   kind    "http", or "throw" when the transport throws                  *)
(*   status  the HTTP status                                               *)
(*   preOk   the assertions placed before the identifier is read (required *)
(*           fields other than the identifier, expected and echoed values) *)
(*   id      the identifier field the step reads (utilityReferenceId, ...) *)
(*   id2     Step 15 only: the KFS entry's utilityReferenceId              *)
(*   postOk  the assertions placed after the identifier is stored          *)

ExpectedStatus == 200

ThrowResponse ==
  [kind |-> "throw", status |-> 0, preOk |-> FALSE, id |-> Undef, id2 |-> Undef,
   postOk |-> FALSE]

NoResponse ==
  [kind |-> "none", status |-> 0, preOk |-> FALSE, id |-> Undef, id2 |-> Undef,
   postOk |-> FALSE]

SlotOfShared(i) ==
  LET n == StepName[i]
  IN CASE n = "Step 3" -> "opportunityId"
       [] n = "Step 4" -> "utilityReferenceId"
       [] n = "Step 6" -> "photoVerificationReferenceId"
       [] n = "Step 7" -> "additionalDataReferenceId"
       [] n = "Step 9" -> "bankUtilityReferenceId"
       [] n = "Step 11" -> "mandateReferenceId"
       [] n = "Step 13" -> "verificationLogReferenceId"
       [] n = "Step 14.1" -> "verificationLogReferenceId"
       [] n = "Step 15" -> "agreementReferenceId"
       [] n = "Step 15.1" -> "newKfsReferenceId"
       [] n = "Step 15.3" -> "newAgreementReferenceId"
       [] OTHER -> "none"

\* the slot a step stores the identifier of its response in
SlotOf(i) ==
  LET n == StepName[i]
  IN CASE n = "Step 3" -> "opportunityId"
       [] n = "Step 4" -> "utilityReferenceId"
       [] n = "Step 6" -> "photoVerificationReferenceId"
       [] n = "Step 7" -> "additionalDataReferenceId"
       [] n = "Step 9" -> "bankUtilityReferenceId"
       [] n = "Step 11" -> "mandateReferenceId"
       [] n = "Step 13" -> "verificationLogReferenceId"
       [] n = "Step 14.1" -> "mobileVerificationLogReferenceId"
       [] n = "Step 15" -> "agreementReferenceId"
       [] n = "Step 15.1" -> "newKfsReferenceId"
       [] n = "Step 15.3" -> "newAgreementReferenceId"
       [] OTHER -> "none"

CaptureKindChecksAfterWrite(i) ==
  LET n == StepName[i]
  IN CASE n \in {"Step 3", "Step 4", "Step 6", "Step 9", "Step 11", "Step 13",
                 "Step 14.1", "Step 7", "Step 15.1", "Step 15.3"} ->
            "definedThenWrite"
       [] n = "Step 15" -> "conditionalPair"
       [] OTHER -> "none"

CaptureKindAllMandatory(i) ==
  IF SlotOf(i) = "none" THEN "none" ELSE "definedThenWrite"

\* how a step treats the identifier of its response:
\*   "writeThenDefined"  x = body.id; expect(x).toBeDefined()
\*   "definedThenWrite"  expect(body.id).toBeDefined(); x = body.id; more checks
\*   "conditional"       if (body.id) { x = body.id }
\*   "conditionalPair"   Step 15: two conditional captures from body.steps
\*   "none"              the step stores nothing
CaptureKind(i) ==
  LET n == StepName[i]
  IN CASE n \in {"Step 3", "Step 4"} -> "writeThenDefined"
       [] n \in {"Step 6", "Step 9", "Step 11", "Step 13", "Step 14.1"} ->
            "definedThenWrite"
       [] n \in {"Step 7", "Step 15.1", "Step 15.3"} -> "conditional"
       [] n = "Step 15" -> "conditionalPair"
       [] OTHER -> "none"

\* the identifier the server issues for a step (one per producing step)
IssuedId(i) == "ID-" \o StepName[i]
IssuedId2(i) == "KFS-" \o StepName[i]

IdChoices(i, n) ==
  IF CaptureKind(i) = "none" THEN {Undef}
  ELSE {Undef, IssuedId(i)} \cup (IF n < MaxNulls THEN {Null} ELSE {})

Id2Choices(i) ==
  IF CaptureKind(i) = "conditionalPair" THEN {Undef, IssuedId2(i)} ELSE {Undef}

\* the answers a step can get when the server has sent n nulls so far
Responses(i, n) ==
  { ThrowResponse,
    [kind |-> "http", status |-> 400, preOk |-> FALSE, id |-> Undef,
     id2 |-> Undef, postOk |-> FALSE],
    [kind |-> "http", status |-> ExpectedStatus, preOk |-> FALSE, id |-> Undef,
     id2 |-> Undef, postOk |-> FALSE] }
  \cup
  { [kind |-> "http", status |-> ExpectedStatus, preOk |-> TRUE, id |-> v,
     id2 |-> w, postOk |-> p] :
      v \in IdChoices(i, n), w \in Id2Choices(i),
      p \in (IF CaptureKind(i) = "definedThenWrite" THEN BOOLEAN ELSE {TRUE}) }

\* the body of one test after the helper call returned r: the assertions in
\* source order, stopping at the first that fails; slots written before it stay
RunAssertions(i, r, s, fx) ==
  LET kind == CaptureKind(i)
      slot == SlotOf(i)
      fail(t) == [ok |-> FALSE, slots |-> t]
      pass(t) == [ok |-> TRUE, slots |-> t]
      written == [s EXCEPT ![slot] = r.id]
  IN IF r.kind = "throw" THEN fail(s)
     ELSE IF r.status # ExpectedStatus THEN fail(s)
     ELSE IF ~r.preOk THEN fail(s)
     ELSE CASE kind = "none" -> pass(s)
            [] kind = "writeThenDefined" ->
                 IF ToBeDefined(r.id) THEN pass(written) ELSE fail(written)
            [] kind = "definedThenWrite" ->
                 IF ~ToBeDefined(r.id) THEN fail(s)
                 ELSE IF r.postOk THEN pass(written) ELSE fail(written)
            [] kind = "conditional" ->
                 IF StepName[i] = "Step 7" /\ fx.requiresId7 /\ r.id = Undef
                 THEN fail(s)
                 ELSE IF Truthy(r.id) THEN pass(written) ELSE pass(s)
            [] kind = "conditionalPair" ->
                 LET s1 == IF Truthy(r.id) THEN written ELSE s
                     s2 == IF Truthy(r.id2)
                           THEN [s1 EXCEPT !["kfsReferenceId"] = r.id2] ELSE s1
                 IN pass(s2)

-----------------------------------------------------------------------------
(* The test runner: playwright.config.ts and test.describe.serial          *)

RetriesAlways(ci) == IF ci THEN 2 ELSE 2

\* retries: process.env.CI ? 2 : 0
Retries(ci) == IF ci THEN 2 ELSE 0

AfterTestContinue(ok) == IF ok THEN "Succeeded" ELSE "Succeeded"

\* test.describe.serial: a passed test lets the next one run, a failed test
\* makes the runner skip every test after it
AfterTest(ok) == IF ok THEN "Succeeded" ELSE "Failed"

NoErrorLog == {}

\* catch (error) { this.logger.error('<operation> failed:', error.message);
\* throw error; }: the parts of the failed call the helper writes to the log
HelperCatchLog(i) == {"message"}

InitJourney ==
  /\ fixture \in Fixtures
  /\ isCI \in BOOLEAN
  /\ attempt = 0
  /\ phase = "NotStarted"
  /\ cur = 0
  /\ slots = EmptySlots
  /\ request = NoRequest
  /\ response = NoResponse
  /\ calls = <<>>
  /\ failedAt = 0
  /\ apiContext = "none"
  /\ nulls = 0
  /\ errorLog = NoErrorLog

\* test.beforeAll: a new request context and a new helper
BeforeAll ==
  /\ phase = "NotStarted"
  /\ apiContext' = "open"
  /\ phase' = "Pending"
  /\ cur' = 1
  /\ UNCHANGED <<fixture, isCI, attempt, slots, request, response, calls,
                 failedAt, nulls, errorLog,
                 nonJourneyVars>>

IssueWritingTemplate ==
  /\ phase = "Pending"
  /\ \E timestamp \in Timestamps :
       request' = HelperRequest(cur, HelperArgs(cur, slots, fixture), timestamp)
  /\ fixture' = [fixture EXCEPT !.request =
                   Spread(@, Obj("opportunityId", slots["opportunityId"]))]
  /\ calls' = Append(calls, cur)
  /\ phase' = "Executing"
  /\ UNCHANGED <<isCI, attempt, cur, slots, response, failedAt,
                 apiContext, nulls, errorLog,
                 nonJourneyVars>>

\* the test at cur builds its request and the helper hands it to the HTTP layer
Issue ==
  /\ phase = "Pending"
  /\ \E timestamp \in Timestamps :
       request' = HelperRequest(cur, HelperArgs(cur, slots, fixture), timestamp)
  /\ calls' = Append(calls, cur)
  /\ phase' = "Executing"
  /\ UNCHANGED <<fixture, isCI, attempt, cur, slots, response, failedAt,
                 apiContext, nulls, errorLog,
                 nonJourneyVars>>

\* the call returns (or throws) and the rest of the test body runs
Complete ==
  /\ phase = "Executing"
  /\ \E r \in Responses(cur, nulls) :
       LET res == RunAssertions(cur, r, slots, fixture)
       IN /\ response' = r
          /\ slots' = res.slots
          /\ phase' = AfterTest(res.ok)
          /\ failedAt' = IF res.ok THEN failedAt ELSE cur
          /\ nulls' = IF r.id = Null THEN nulls + 1 ELSE nulls
          /\ errorLog' = IF r.kind = "throw" THEN HelperCatchLog(cur)
                                             ELSE errorLog
  /\ UNCHANGED <<fixture, isCI, attempt, cur, request, calls, apiContext,
                 nonJourneyVars>>

AdvanceWithoutAwait ==
  /\ phase \in {"Executing", "Succeeded"}
  /\ cur < NumSteps
  /\ cur' = cur + 1
  /\ phase' = "Pending"
  /\ request' = NoRequest
  /\ response' = NoResponse
  /\ UNCHANGED <<fixture, isCI, attempt, slots, calls, failedAt, apiContext,
                 nulls, errorLog,
                 nonJourneyVars>>

\* the next test of the group starts; the locals of the finished test are gone
Advance ==
  /\ phase = "Succeeded"
  /\ cur < NumSteps
  /\ cur' = cur + 1
  /\ phase' = "Pending"
  /\ request' = NoRequest
  /\ response' = NoResponse
  /\ UNCHANGED <<fixture, isCI, attempt, slots, calls, failedAt, apiContext,
                 nulls, errorLog,
                 nonJourneyVars>>

\* after a failed test the runner skips the remaining tests of the group
Abort ==
  /\ phase = "Failed"
  /\ phase' = "Aborted"
  /\ request' = NoRequest
  /\ response' = NoResponse
  /\ UNCHANGED <<fixture, isCI, attempt, cur, slots, calls, failedAt,
                 apiContext, nulls, errorLog,
                 nonJourneyVars>>

TerminalOnlySucceeded == phase = "Succeeded" /\ cur = NumSteps

\* the group is over: a test failed and the rest is skipped, or the last test
\* passed
Terminal == phase = "Aborted" \/ (phase = "Succeeded" /\ cur = NumSteps)

\* test.afterAll: apiContext.dispose()
AfterAll ==
  /\ Terminal
  /\ apiContext = "open"
  /\ apiContext' = "disposed"
  /\ UNCHANGED <<fixture, isCI, attempt, phase, cur, slots, request, response,
                 calls, failedAt, nulls, errorLog,
                 nonJourneyVars>>

\* the runner retries the failed serial group from its first test in a new
\* worker process: the module is loaded again, so every slot is undefined
Retry ==
  /\ phase = "Aborted"
  /\ apiContext = "disposed"
  /\ attempt < Retries(isCI)
  /\ attempt' = attempt + 1
  /\ phase' = "NotStarted"
  /\ cur' = 0
  /\ slots' = EmptySlots
  /\ request' = NoRequest
  /\ response' = NoResponse
  /\ calls' = <<>>
  /\ failedAt' = 0
  /\ apiContext' = "none"
  /\ errorLog' = NoErrorLog
  /\ UNCHANGED <<fixture, isCI, nulls, nonJourneyVars>>

-----------------------------------------------------------------------------
(* The signer (utils/dspAuth.ts).  Strings are sequences of characters.    *)
(* A JSON value is [t, chars, members]: t its type, chars the characters   *)
(* of a string or number, members the <<key, value>> pairs of an object in *)
(* insertion order.                                                        *)

\* the most members of an object body
MaxMembers == 1

\* the most calls of generateSignature in one run
MaxCalls == 3

JUndefined == [t |-> "undefined", chars |-> <<>>, members |-> <<>>]
JNull == [t |-> "null", chars |-> <<>>, members |-> <<>>]
JString(cs) == [t |-> "string", chars |-> cs, members |-> <<>>]
JNumber(cs) == [t |-> "number", chars |-> cs, members |-> <<>>]
JObject(ms) == [t |-> "object", chars |-> <<>>, members |-> ms]

Scalars == {JNull, JString(<<>>), JNumber(<<"1">>)}

MemberKey == <<"a", "b", "c">>

\* the objects with n members, the i-th under the key MemberKey[i]
ObjectsOfSize(n) ==
  { JObject([i \in 1..n |-> <<MemberKey[i], f[i]>>]) : f \in [1..n -> Scalars] }

JsonBodies == Scalars \cup UNION { ObjectsOfSize(n) : n \in 0..MaxMembers }

SecretKeys == {"secret", ""}

RECURSIVE Stringify(_), StringifyMembers(_)

\* JSON.stringify of a value that is not undefined
Stringify(v) ==
  CASE v.t = "null" -> <<"n", "u", "l", "l">>
    [] v.t = "string" -> <<"\"">> \o v.chars \o <<"\"">>
    [] v.t = "number" -> v.chars
    [] v.t = "object" -> <<"{">> \o StringifyMembers(v.members) \o <<"}">>

\* the "key":value members of an object, separated by commas
StringifyMembers(ms) ==
  IF ms = <<>> THEN <<>>
  ELSE LET m == Head(ms)
           one == <<"\"", m[1], "\"", ":">> \o Stringify(m[2])
       IN IF Tail(ms) = <<>> THEN one
          ELSE one \o <<",">> \o StringifyMembers(Tail(ms))

CanonicalStringEmptyAsAbsent(timestamp, requestBody) ==
  LET bodyString == IF requestBody # JUndefined /\ requestBody # JObject(<<>>)
                    THEN Stringify(requestBody) ELSE <<>>
  IN IF bodyString # <<>> THEN bodyString \o <<".">> \o timestamp ELSE timestamp

\* generateSignature, lines 26-36: the string that is signed
CanonicalString(timestamp, requestBody) ==
  LET bodyString == IF requestBody # JUndefined
                    THEN Stringify(requestBody) ELSE <<>>
  IN IF bodyString # <<>> THEN bodyString \o <<".">> \o timestamp ELSE timestamp

\* crypto.createHmac('sha256', key): a new object with nothing fed to it
CreateHmac(key) == [key |-> key, data |-> <<>>]

\* hmac.update(text, 'utf8'): the text is appended to what was fed before
HmacUpdate(h, text) == [h EXCEPT !.data = h.data \o text]

\* hmac.digest('base64'): HMAC-SHA256 is taken as collision free, so the
\* result is the term of its key and message, in its base64 encoding
HmacDigest(h) ==
  [encoding |-> "base64", alg |-> "HMAC-SHA256", key |-> h.key, msg |-> h.data]

NoHmac == [key |-> "", data |-> <<>>]

HmacForCallReused(key, old) == [old EXCEPT !.key = key]

\* the Hmac object a call of generateSignature feeds, given the object the
\* previous call left behind: always a new one
HmacForCall(key, old) == CreateHmac(key)

\* generateSignature(timestamp, secretKey, requestBody)
GenerateSignature(timestamp, secretKey, requestBody) ==
  HmacDigest(HmacUpdate(CreateHmac(secretKey),
                        CanonicalString(timestamp, requestBody)))

InitSign == signLog = <<>> /\ hmacObj = NoHmac

\* one call of generateSignature, with its inputs and its result logged
Sign ==
  /\ Len(signLog) < MaxCalls
  /\ \E ts \in Timestamps, key \in SecretKeys, body \in JsonBodies \cup {JUndefined} :
       LET h == HmacUpdate(HmacForCall(key, hmacObj), CanonicalString(ts, body))
       IN /\ hmacObj' = h
          /\ signLog' = Append(signLog,
                               [timestamp |-> ts, secretKey |-> key,
                                requestBody |-> body, signature |-> HmacDigest(h)])
  /\ UNCHANGED nonSignVars

InitJourneyIdle ==
  /\ fixture = [request |-> PlainTemplate, requiresId7 |-> FALSE]
  /\ isCI = FALSE
  /\ attempt = 0
  /\ phase = "NotStarted"
  /\ cur = 0
  /\ slots = EmptySlots
  /\ request = NoRequest
  /\ response = NoResponse
  /\ calls = <<>>
  /\ failedAt = 0
  /\ apiContext = "none"
  /\ nulls = 0
  /\ errorLog = NoErrorLog

-----------------------------------------------------------------------------
(* The 'LOS Login Flow' serial group: three tests that share one LOSHelper *)
(* and the module-level jwtToken                                           *)

NumFlowTests == 3

\* the JWTs the server answers verifyOtp with
JwtValues == {Undef, Null, "", "abc", "a.b.c"}

\* jwtToken.split('.').length
JwtParts(jwt) == IF jwt = "a.b.c" THEN 3 ELSE 1

\* the server's answer to a test of the group, as far as its assertions see
\* it; bodyOk stands for the body fields the test compares with literals
FlowThrow == [kind |-> "throw", status |-> 0, bodyOk |-> FALSE, jwt |-> Undef]

FlowNoResponse == [kind |-> "none", status |-> 0, bodyOk |-> FALSE, jwt |-> Undef]

FlowResponses(i) ==
  {FlowThrow} \cup
  { [kind |-> "http", status |-> st, bodyOk |-> b, jwt |-> j] :
      st \in {200, 201, 400}, b \in BOOLEAN,
      j \in IF i = 2 THEN JwtValues ELSE {Undef} }

\* response.ok of parseResponse / APIResponse.ok(): a 2xx status
IsOk(status) == status >= 200 /\ status <= 299

\* validateStatusOk, expect(ok).toBe(true), expect(status).toBe(200) and the
\* expectations on the body that every test of the group starts with
FlowCommonChecks(r) ==
  r.kind = "http" /\ IsOk(r.status) /\ r.status = 200 /\ r.bodyOk

\* Step 2 gets as far as jwtToken = response.body.jwt
FlowJwtAssigned(r) == FlowCommonChecks(r) /\ r.jwt # Undef

\* the body of test i run against the answer r:
\* [ok, called, jwtToken, authToken] after it
FlowRunTest(i, r, f) ==
  CASE i = 1 ->
         [ok |-> FlowCommonChecks(r), called |-> TRUE,
          jwtToken |-> f.jwtToken, authToken |-> f.authToken]
    [] i = 2 ->
         [ok |-> FlowJwtAssigned(r) /\ Truthy(r.jwt) /\ JwtParts(r.jwt) = 3,
          called |-> TRUE,
          jwtToken |-> IF FlowJwtAssigned(r) THEN r.jwt ELSE f.jwtToken,
          authToken |-> f.authToken]
    [] i = 3 ->
         IF ~Truthy(f.jwtToken)
         THEN [ok |-> FALSE, called |-> FALSE,
               jwtToken |-> f.jwtToken, authToken |-> f.authToken]
         ELSE [ok |-> FlowCommonChecks(r), called |-> TRUE,
               jwtToken |-> f.jwtToken, authToken |-> f.jwtToken]

NoFlow(ci) ==
  [isCI |-> ci, attempt |-> 0, phase |-> "NotStarted", cur |-> 0,
   context |-> "none", jwtToken |-> Undef, authToken |-> "", calls |-> <<>>,
   last |-> FlowNoResponse]

InitFlow == flow \in { NoFlow(ci) : ci \in BOOLEAN }

InitFlowIdle == flow = NoFlow(FALSE)

\* test.beforeAll: playwrightRequest.newContext() and new LOSHelper(context)
FlowBeforeAll ==
  /\ flow.phase = "NotStarted"
  /\ flow' = [flow EXCEPT !.phase = "Pending", !.cur = 1, !.context = "open",
                           !.authToken = ""]
  /\ UNCHANGED nonFlowVars

\* one test of the group, from its call to its last expectation
FlowTest ==
  /\ flow.phase = "Pending"
  /\ \E r \in FlowResponses(flow.cur) :
       LET res == FlowRunTest(flow.cur, r, flow)
       IN flow' = [flow EXCEPT
                     !.last = IF res.called THEN r ELSE FlowNoResponse,
                     !.calls = IF res.called THEN Append(@, flow.cur) ELSE @,
                     !.jwtToken = res.jwtToken,
                     !.authToken = res.authToken,
                     !.phase = IF ~res.ok THEN "Aborted"
                               ELSE IF flow.cur = NumFlowTests THEN "Succeeded"
                               ELSE "Pending",
                     !.cur = IF res.ok /\ flow.cur < NumFlowTests
                             THEN @ + 1 ELSE @]
  /\ UNCHANGED nonFlowVars

\* the tests are over and the runner runs the group's afterAll hooks: the
\* group registers none, so nothing touches the request context
FlowAfterAll(f) == f.context

\* the group is over for this worker
FlowEnd ==
  /\ flow.phase \in {"Succeeded", "Aborted"}
  /\ flow' = [flow EXCEPT
               !.phase = IF @ = "Succeeded" THEN "FinishedPassed"
                                            ELSE "FinishedFailed",
               !.context = FlowAfterAll(flow)]
  /\ UNCHANGED nonFlowVars

\* the runner retries the failed group in a new worker process
FlowRetry ==
  /\ flow.phase = "FinishedFailed"
  /\ flow.attempt < Retries(flow.isCI)
  /\ flow' = [NoFlow(flow.isCI) EXCEPT !.attempt = flow.attempt + 1]
  /\ UNCHANGED nonFlowVars

-----------------------------------------------------------------------------
(* BaseHelper and its subclasses LOSHelper and LMSHelper                   *)

\* the helper instances: helper1 and helper2
HelperIds == {1, 2}

Pods == {"LOS", "LMS"}

\* the tokens handed to setAuthToken and answered by the server
Tokens == {"", "tokA", "tokB"}

DigitChar == <<"0", "1", "2", "3", "4", "5", "6", "7", "8", "9">>

RECURSIVE ToDigits(_)

\* `${n}` of a non-negative integer: its decimal digits
ToDigits(n) ==
  IF n < 10 THEN <<DigitChar[n + 1]>>
  ELSE ToDigits(n \div 10) \o <<DigitChar[(n % 10) + 1]>>

\* JSON.stringify(body) inside a template literal: undefined prints as the
\* word undefined
StringifyInMessage(body) ==
  IF body = JUndefined THEN <<"u", "n", "d", "e", "f", "i", "n", "e", "d">>
  ELSE Stringify(body)

\* `<prefix>${status} - ${JSON.stringify(body)}`, the prefix kept as one token
FailedMessage(prefix, status, body) ==
  <<prefix>> \o ToDigits(status) \o <<" - ">> \o StringifyInMessage(body)

\* what the HTTP layer does with one request: it throws, or it answers with
\* a status, a body and (under body.jwt / body.token) a token; or it answers
\* with a status and content-type application/json but a body that
\* response.json() cannot parse
Thrown == [kind |-> "throw", status |-> 0, body |-> JUndefined, token |-> Undef]

NoOutcome == [kind |-> "none", status |-> 0, body |-> JUndefined, token |-> Undef]

Unparsable ==
  [kind |-> "unparsable", status |-> 502, body |-> JUndefined, token |-> Undef]

Outcomes ==
  {Thrown, Unparsable} \cup
  { [kind |-> "http", status |-> 200, body |-> JObject(<<>>), token |-> t] :
      t \in {Undef, "tokA"} } \cup
  { [kind |-> "http", status |-> st, body |-> b, token |-> Undef] :
      st \in {401, 500},
      b \in {JObject(<<>>), JObject(<< <<"a", JNumber(<<"1">>)>> >>)} }

\* the error the HTTP layer throws
TransportMessage == <<"transport error">>

\* the SyntaxError response.json() throws
ParseMessage == <<"Unexpected token in JSON">>

\* the custom headers LOSHelper passes with each request of login()
CustomHeaders ==
  Spread(Obj("Accept", "application/json, text/plain, */*"),
         Obj("x-appmode", "INVESTOR_VIEW"))

\* the additionalHeaders the callers of buildHeaders pass
AdditionalHeaders ==
  {EmptyObject, CustomHeaders, Obj("X-Custom-Header", "v")}

BuildHeadersAlwaysAuth(authToken, additionalHeaders) ==
  Spread(Spread(Spread(Obj("Content-Type", "application/json"),
                       Obj("Accept", "application/json")),
                Obj("Authorization", "Bearer " \o authToken)),
         additionalHeaders)

\* buildHeaders(additionalHeaders)
BuildHeaders(authToken, additionalHeaders) ==
  LET headers == Spread(Obj("Content-Type", "application/json"),
                        Obj("Accept", "application/json"))
      withAuth == IF Truthy(authToken)
                  THEN Spread(headers,
                              Obj("Authorization", "Bearer " \o authToken))
                  ELSE headers
  IN Spread(withAuth, additionalHeaders)

MakeRequestRejectsNonOk(authToken, hasData, additionalHeaders, o) ==
  [headers |-> BuildHeaders(authToken, additionalHeaders),
   threw |-> o.kind # "http" \/ ~IsOk(o.status),
   error |-> CASE o.kind = "throw" -> TransportMessage
               [] o.kind = "unparsable" -> ParseMessage
               [] OTHER -> <<>>,
   logged |-> IF o.kind = "http" THEN {}
              ELSE {"method", "url", "headers", "message"} \cup
                   (IF hasData THEN {"body"} ELSE {}),
   status |-> o.status, body |-> o.body, ok |-> IsOk(o.status),
   token |-> o.token]

\* makeRequest(method, endpoint, options) against the outcome o of the HTTP
\* layer: the headers it sent, what its catch block logged, and its result
MakeRequest(authToken, hasData, additionalHeaders, o) ==
  [headers |-> BuildHeaders(authToken, additionalHeaders),
   threw |-> o.kind # "http",
   error |-> CASE o.kind = "throw" -> TransportMessage
               [] o.kind = "unparsable" -> ParseMessage
               [] OTHER -> <<>>,
   logged |-> IF o.kind = "http" THEN {}
              ELSE {"method", "url", "headers", "message"} \cup
                   (IF hasData THEN {"body"} ELSE {}),
   status |-> o.status, body |-> o.body, ok |-> IsOk(o.status),
   token |-> o.token]

\* one request of an operation: its endpoint, what the HTTP layer did with
\* it and what makeRequest made of that (an ApiResponse, or a throw)
Call(endpoint, o, r) ==
  [endpoint |-> endpoint, answer |-> o,
   result |-> [threw |-> r.threw, status |-> r.status, body |-> r.body,
               ok |-> r.ok]]

\* the result of login() / logout(): whether it rejected and with what
\* message, the token stored after it, the headers of the requests it sent,
\* the answer that made it fail, what was logged about the request, and the
\* requests it made, in order
OpResult(threw, message, authToken, sent, failed, logged, requests) ==
  [threw |-> threw, message |-> message, authToken |-> authToken,
   sent |-> sent, failed |-> failed, logged |-> logged, requests |-> requests]

LoginLOSRollingBack(authToken, o1, o2, o3) ==
  LET r1 == MakeRequest(authToken, FALSE, CustomHeaders, o1)
      r2 == MakeRequest(authToken, TRUE, CustomHeaders, o2)
      r3 == MakeRequest(o2.token, TRUE, CustomHeaders, o3)
      s1 == <<r1.headers>>
      s2 == <<r1.headers, r2.headers>>
      s3 == <<r1.headers, r2.headers, r3.headers>>
      c1 == <<Call("requestOtp", o1, r1)>>
      c2 == c1 \o <<Call("verifyOtp", o2, r2)>>
      c3 == c2 \o <<Call("getUserData", o3, r3)>>
  IN IF r1.threw
     THEN OpResult(TRUE, r1.error, authToken, s1, o1, r1.logged, c1)
     ELSE IF ~r1.ok
     THEN OpResult(TRUE, FailedMessage("Request OTP failed: ", r1.status, r1.body),
                   authToken, s1, o1, {}, c1)
     ELSE IF r2.threw
     THEN OpResult(TRUE, r2.error, authToken, s2, o2, r2.logged, c2)
     ELSE IF ~r2.ok
     THEN OpResult(TRUE, FailedMessage("Verify OTP failed: ", r2.status, r2.body),
                   authToken, s2, o2, {}, c2)
     ELSE IF ~Truthy(r2.token)
     THEN OpResult(TRUE, <<"JWT token not found in verify OTP response">>,
                   authToken, s2, o2, {}, c2)
     ELSE IF r3.threw
     THEN OpResult(TRUE, r3.error, authToken, s3, o3, r3.logged, c3)
     ELSE IF ~r3.ok
     THEN OpResult(TRUE,
                   FailedMessage("Fetch user data failed: ", r3.status, r3.body),
                   authToken, s3, o3, {}, c3)
     ELSE OpResult(FALSE, <<>>, r2.token, s3, NoOutcome, {}, c3)

\* LOSHelper.login(): request OTP, verify OTP, fetch user data
LoginLOS(authToken, o1, o2, o3) ==
  LET r1 == MakeRequest(authToken, FALSE, CustomHeaders, o1)
      r2 == MakeRequest(authToken, TRUE, CustomHeaders, o2)
      r3 == MakeRequest(o2.token, TRUE, CustomHeaders, o3)
      s1 == <<r1.headers>>
      s2 == <<r1.headers, r2.headers>>
      s3 == <<r1.headers, r2.headers, r3.headers>>
      c1 == <<Call("requestOtp", o1, r1)>>
      c2 == c1 \o <<Call("verifyOtp", o2, r2)>>
      c3 == c2 \o <<Call("getUserData", o3, r3)>>
  IN IF r1.threw
     THEN OpResult(TRUE, r1.error, authToken, s1, o1, r1.logged, c1)
     ELSE IF ~r1.ok
     THEN OpResult(TRUE, FailedMessage("Request OTP failed: ", r1.status, r1.body),
                   authToken, s1, o1, {}, c1)
     ELSE IF r2.threw
     THEN OpResult(TRUE, r2.error, authToken, s2, o2, r2.logged, c2)
     ELSE IF ~r2.ok
     THEN OpResult(TRUE, FailedMessage("Verify OTP failed: ", r2.status, r2.body),
                   authToken, s2, o2, {}, c2)
     ELSE IF ~Truthy(r2.token)
     THEN OpResult(TRUE, <<"JWT token not found in verify OTP response">>,
                   authToken, s2, o2, {}, c2)
     ELSE IF r3.threw
     THEN OpResult(TRUE, r3.error, r2.token, s3, o3, r3.logged, c3)
     ELSE IF ~r3.ok
     THEN OpResult(TRUE,
                   FailedMessage("Fetch user data failed: ", r3.status, r3.body),
                   r2.token, s3, o3, {}, c3)
     ELSE OpResult(FALSE, <<>>, r2.token, s3, NoOutcome, {}, c3)

\* LMSHelper.login(): one request, then setAuthToken(loginData.token)
LoginLMS(authToken, o) ==
  LET r == MakeRequest(authToken, TRUE, EmptyObject, o)
      c == <<Call("login", o, r)>>
  IN IF r.threw
     THEN OpResult(TRUE, r.error, authToken, <<r.headers>>, o, r.logged, c)
     ELSE IF ~r.ok
     THEN OpResult(TRUE, FailedMessage("LMS login failed: ", r.status, r.body),
                   authToken, <<r.headers>>, o, {}, c)
     ELSE OpResult(FALSE, <<>>, r.token, <<r.headers>>, NoOutcome, {}, c)

\* logout() of LOSHelper and of LMSHelper: await makeRequest('POST', ...),
\* then setAuthToken('')
LogoutOp(authToken, o) ==
  LET r == MakeRequest(authToken, FALSE, EmptyObject, o)
      c == <<Call("logout", o, r)>>
  IN IF r.threw
     THEN OpResult(TRUE, r.error, authToken, <<r.headers>>, o, r.logged, c)
     ELSE OpResult(FALSE, <<>>, "", <<r.headers>>, NoOutcome, {}, c)

\* the latest operation on a helper: its name, the helper, the token argument
\* or result, and the OpResult fields
Op(name, h, token, res) ==
  [op |-> name, h |-> h, token |-> token, threw |-> res.threw,
   message |-> res.message, sent |-> res.sent, failed |-> res.failed,
   logged |-> res.logged, requests |-> res.requests]

NoOp ==
  Op("none", 0, Undef, OpResult(FALSE, <<>>, "", <<>>, NoOutcome, {}, <<>>))

\* the operation returned and sent or built the headers hs
Returned(authToken, hs) ==
  OpResult(FALSE, <<>>, authToken, hs, NoOutcome, {}, <<>>)

\* protected authToken: string = ''
NewHelper(pod) == [pod |-> pod, authToken |-> ""]

InitHelpers ==
  /\ helpers \in { [h \in HelperIds |-> NewHelper(p[h])] : p \in [HelperIds -> Pods] }
  /\ lastOp = NoOp

InitHelpersIdle ==
  /\ helpers = [h \in HelperIds |-> NewHelper("LOS")]
  /\ lastOp = NoOp

\* the helper h after an operation that leaves it with the token t
Store(h, t) == [helpers EXCEPT ![h].authToken = t]

\* setAuthToken(token)
SetAuthToken ==
  /\ \E h \in HelperIds, t \in Tokens :
       /\ helpers' = Store(h, t)
       /\ lastOp' = Op("setAuthToken", h, t, Returned(t, <<>>))
  /\ UNCHANGED nonHelperVars

\* getAuthToken()
GetAuthToken ==
  /\ \E h \in HelperIds :
       lastOp' = Op("getAuthToken", h, helpers[h].authToken,
                    Returned(helpers[h].authToken, <<>>))
  /\ UNCHANGED <<helpers, nonHelperVars>>

\* buildHeaders(additionalHeaders)
CallBuildHeaders ==
  /\ \E h \in HelperIds, a \in AdditionalHeaders :
       lastOp' = Op("buildHeaders", h, Undef,
                    Returned(helpers[h].authToken,
                             <<BuildHeaders(helpers[h].authToken, a)>>))
  /\ UNCHANGED <<helpers, nonHelperVars>>

\* an API method of the helper: one makeRequest with the stored token
ApiCall ==
  /\ \E h \in HelperIds, o \in Outcomes, d \in BOOLEAN :
       LET r == MakeRequest(helpers[h].authToken, d, EmptyObject, o)
       IN lastOp' = Op("makeRequest", h, Undef,
                       OpResult(r.threw, r.error,
                                helpers[h].authToken, <<r.headers>>,
                                IF r.threw THEN o ELSE NoOutcome, r.logged,
                                <<Call("api", o, r)>>))
  /\ UNCHANGED <<helpers, nonHelperVars>>

\* what the HTTP layer can do with the next request of a login() whose
\* latest request was answered with o: there is a next one only for LOS and
\* only after an OK answer
NextOutcomes(pod, o) ==
  IF pod = "LOS" /\ o.kind = "http" /\ IsOk(o.status) THEN Outcomes
  ELSE {NoOutcome}

\* login()
Login ==
  /\ \E h \in HelperIds, o1 \in Outcomes :
     \E o2 \in NextOutcomes(helpers[h].pod, o1) :
     \E o3 \in NextOutcomes(helpers[h].pod, o2) :
       LET res == IF helpers[h].pod = "LOS"
                  THEN LoginLOS(helpers[h].authToken, o1, o2, o3)
                  ELSE LoginLMS(helpers[h].authToken, o1)
       IN /\ helpers' = Store(h, res.authToken)
          /\ lastOp' = Op("login", h, Undef, res)
  /\ UNCHANGED nonHelperVars

\* logout()
Logout ==
  /\ \E h \in HelperIds, o \in Outcomes :
       LET res == LogoutOp(helpers[h].authToken, o)
       IN /\ helpers' = Store(h, res.authToken)
          /\ lastOp' = Op("logout", h, Undef, res)
  /\ UNCHANGED nonHelperVars

-----------------------------------------------------------------------------
(* The clock and the auth headers (utils/dspAuth.ts)                       *)

\* the most calls of getCurrentTimestamp in one run
MaxTsCalls == 2

\* the most calls of generateDspAuthHeaders in one run
MaxHdrCalls == 2

\* the UTC fields new Date() shows through getUTCFullYear() .. getUTCSeconds()
\* (month counted from 0), with the milliseconds of the instant
Instant(y, mo, d, h, mi, sec, ms) ==
  [year |-> y, month |-> mo, date |-> d, hours |-> h, minutes |-> mi,
   seconds |-> sec, ms |-> ms]

\* the clock values getCurrentTimestamp is called at
Clocks ==
  { Instant(y, mo, d, h, 5, sec, 0) :
      y \in {999, 2026, 9999, 10000}, mo \in {0, 9}, d \in {9, 10},
      h \in {7, 23}, sec \in {5, 59} }

\* the instants generateDspAuthHeaders is called at: two seconds, and two
\* instants in each
HeaderClocks ==
  { Instant(2026, 0, 20, 15, 9, sec, ms) : sec \in {0, 1}, ms \in {0, 500} }

HeaderBodies == {JUndefined, JObject(<<>>)}

Fields(c) == <<c.year, c.month, c.date, c.hours, c.minutes, c.seconds, c.ms>>

RECURSIVE LexLess(_, _)

\* a is before b, field by field
LexLess(a, b) ==
  IF a = <<>> \/ b = <<>> THEN FALSE
  ELSE IF Head(a) # Head(b) THEN Head(a) < Head(b)
  ELSE LexLess(Tail(a), Tail(b))

Earlier(c, d) == LexLess(Fields(c), Fields(d))

\* the same instant with its milliseconds dropped
SecondOf(c) == [c EXCEPT !.ms = 0]

\* String(n).padStart(2, '0')
PadStart2(n) == IF n < 10 THEN <<"0">> \o ToDigits(n) ELSE ToDigits(n)

GetCurrentTimestampToMinute(now) ==
  ToDigits(now.year) \o PadStart2(now.month + 1) \o PadStart2(now.date)
    \o PadStart2(now.hours) \o PadStart2(now.minutes) \o <<"0", "0">>

\* getCurrentTimestamp() when new Date() is now
GetCurrentTimestamp(now) ==
  ToDigits(now.year) \o PadStart2(now.month + 1) \o PadStart2(now.date)
    \o PadStart2(now.hours) \o PadStart2(now.minutes)
    \o PadStart2(now.seconds)

GenerateDspAuthHeadersTwoReads(secretKey, requestBody, now) ==
  LET timestamp == GetCurrentTimestamp(now)
      second == GetCurrentTimestamp([now EXCEPT !.seconds = (@ + 1) % 60])
      signature == GenerateSignature(second, secretKey, requestBody)
  IN [h \in {"X-Timestamp", "X-Signature"} |->
        IF h = "X-Timestamp" THEN timestamp ELSE signature]

\* generateDspAuthHeaders(secretKey, requestBody) when the one new Date() of
\* the call, in getCurrentTimestamp, is now
GenerateDspAuthHeaders(secretKey, requestBody, now) ==
  LET timestamp == GetCurrentTimestamp(now)
      signature == GenerateSignature(timestamp, secretKey, requestBody)
  IN [h \in {"X-Timestamp", "X-Signature"} |->
        IF h = "X-Timestamp" THEN timestamp ELSE signature]

InitClock == clock \in Clocks /\ tsLog = <<>> /\ hdrLog = <<>>

InitInstant == clock \in HeaderClocks /\ tsLog = <<>> /\ hdrLog = <<>>

InitClockIdle ==
  clock = Instant(2026, 0, 20, 15, 9, 0, 0) /\ tsLog = <<>> /\ hdrLog = <<>>

\* time passes, to a later value of the clock
TickClock ==
  /\ \E c \in Clocks : Earlier(clock, c) /\ clock' = c
  /\ UNCHANGED <<tsLog, hdrLog, nonClockVars>>

\* time passes, to a later instant
TickInstant ==
  /\ \E c \in HeaderClocks : Earlier(clock, c) /\ clock' = c
  /\ UNCHANGED <<tsLog, hdrLog, nonClockVars>>

\* one call of getCurrentTimestamp, with the clock it read and its result
CallGetCurrentTimestamp ==
  /\ Len(tsLog) < MaxTsCalls
  /\ tsLog' = Append(tsLog, [now |-> clock,
                             result |-> GetCurrentTimestamp(clock)])
  /\ UNCHANGED <<clock, hdrLog, nonClockVars>>

\* one call of generateDspAuthHeaders, with its inputs and its result; the
\* clock is read when the call starts and may have moved on when it returns
CallGenerateDspAuthHeaders ==
  /\ Len(hdrLog) < MaxHdrCalls
  /\ \E key \in SecretKeys, body \in HeaderBodies, c \in HeaderClocks :
       /\ c = clock \/ Earlier(clock, c)
       /\ clock' = c
       /\ hdrLog' = Append(hdrLog,
                           [now |-> clock, returnedAt |-> c, secretKey |-> key,
                            requestBody |-> body,
                            headers |-> GenerateDspAuthHeaders(key, body, clock)])
  /\ UNCHANGED <<tsLog, nonClockVars>>

-----------------------------------------------------------------------------
(* ResponseValidator.validateStatus and BaseHelper.replacePathParams       *)

\* the most calls of validateStatus in one run
MaxValCalls == 2

\* the most calls of replacePathParams in one run
MaxPathCalls == 2

\* the ApiResponse objects handed to validateStatus
ApiResponses ==
  { [status |-> st, body |-> b, ok |-> IsOk(st)] :
      st \in {200, 201, 404}, b \in JsonBodies \cup {JUndefined} }

ExpectedStatuses == {200, 404}

ValidateStatusOkOnly(resp, expectedStatus) ==
  IF ~resp.ok
  THEN [threw |-> TRUE,
        message |-> <<"Expected status ">> \o ToDigits(expectedStatus)
                      \o <<", but got ">> \o ToDigits(resp.status)
                      \o <<". Body: ">> \o StringifyInMessage(resp.body),
        response |-> resp]
  ELSE [threw |-> FALSE, message |-> <<>>, response |-> resp]

\* validateStatus(resp, expectedStatus): whether it threw, the message of
\* the error, and the response object after the call
ValidateStatus(resp, expectedStatus) ==
  IF resp.status # expectedStatus
  THEN [threw |-> TRUE,
        message |-> <<"Expected status ">> \o ToDigits(expectedStatus)
                      \o <<", but got ">> \o ToDigits(resp.status)
                      \o <<". Body: ">> \o StringifyInMessage(resp.body),
        response |-> resp]
  ELSE [threw |-> FALSE, message |-> <<>>, response |-> resp]

\* the position of the first occurrence of pat in str, 0 if there is none
IndexOf(str, pat) ==
  LET hits == { i \in 1..(Len(str) - Len(pat) + 1) :
                  SubSeq(str, i, i + Len(pat) - 1) = pat }
  IN IF hits = {} THEN 0 ELSE CHOOSE i \in hits : \A j \in hits : i <= j

\* str.replace(pat, value) with a string pattern: the first occurrence only
ReplaceFirst(str, pat, value) ==
  LET i == IndexOf(str, pat)
  IN IF i = 0 THEN str
     ELSE SubSeq(str, 1, i - 1) \o value \o SubSeq(str, i + Len(pat), Len(str))

\* `{${key}}`
Placeholder(key) == <<"{", key, "}">>

RECURSIVE ReplacePathParams(_, _)

\* replacePathParams(endpoint, params): params is Object.entries(params), the
\* <<key, value>> pairs in insertion order
ReplacePathParams(endpoint, params) ==
  IF params = <<>> THEN endpoint
  ELSE ReplacePathParams(
         ReplaceFirst(endpoint, Placeholder(Head(params)[1]), Head(params)[2]),
         Tail(params))

\* the endpoint templates handed to replacePathParams
Endpoints ==
  { <<"/", "x">>,
    <<"/", "{", "a", "}">>,
    <<"/", "{", "a", "}", "/", "{", "b", "}">>,
    <<"/", "{", "a", "}", "/", "x", "/", "{", "a", "}">>,
    <<"/", "{", "c", "}">> }

ParamValues == { <<"1">>, <<"2", "2">> }

\* the params objects handed to replacePathParams
ParamMaps ==
  {<<>>} \cup
  { << <<k, v>> >> : k \in {"a", "b"}, v \in ParamValues } \cup
  { << <<"a", v>>, <<"b", w>> >> : v \in ParamValues, w \in ParamValues } \cup
  { << <<"b", v>>, <<"a", w>> >> : v \in ParamValues, w \in ParamValues }

InitUtil == valLog = <<>> /\ pathLog = <<>> /\ imgLog = <<>>

\* one call of validateStatus, with its inputs and its result
CallValidateStatus ==
  /\ Len(valLog) < MaxValCalls
  /\ \E r \in ApiResponses, e \in ExpectedStatuses :
       valLog' = Append(valLog, [response |-> r, expectedStatus |-> e,
                                 result |-> ValidateStatus(r, e)])
  /\ UNCHANGED <<pathLog, imgLog, nonUtilVars>>

\* one call of replacePathParams, with its inputs and its result
CallReplacePathParams ==
  /\ Len(pathLog) < MaxPathCalls
  /\ \E e \in Endpoints, ps \in ParamMaps :
       pathLog' = Append(pathLog, [endpoint |-> e, params |-> ps,
                                   result |-> ReplacePathParams(e, ps)])
  /\ UNCHANGED <<valLog, imgLog, nonUtilVars>>

-----------------------------------------------------------------------------
(* Step 6 reads the image file named by the fixture and strips what it     *)
(* takes for a data-URL prefix.  The file's content is an input.           *)

\* the most runs of Step 6 with an image file in one run
MaxImgCalls == 2

Whitespace == {" ", "\n"}

RECURSIVE TrimStart(_), TrimEnd(_)

TrimStart(str) ==
  IF str # <<>> /\ Head(str) \in Whitespace THEN TrimStart(Tail(str)) ELSE str

TrimEnd(str) ==
  IF str # <<>> /\ str[Len(str)] \in Whitespace
  THEN TrimEnd(SubSeq(str, 1, Len(str) - 1)) ELSE str

\* String.prototype.trim
Trim(str) == TrimEnd(TrimStart(str))

\* String.prototype.startsWith
StartsWith(str, prefix) ==
  Len(str) >= Len(prefix) /\ SubSeq(str, 1, Len(prefix)) = prefix

\* 'url(data:image/png;base64,'
UrlPngPrefix ==
  <<"u", "r", "l", "(", "d", "a", "t", "a", ":", "i", "m", "a", "g", "e",
    "/", "p", "n", "g", ";", "b", "a", "s", "e", "6", "4", ",">>

\* 'data:image/png;base64,'
PngPrefix ==
  <<"d", "a", "t", "a", ":", "i", "m", "a", "g", "e", "/", "p", "n", "g",
    ";", "b", "a", "s", "e", "6", "4", ",">>

\* 'data:image/jpeg;base64,'
JpegPrefix ==
  <<"d", "a", "t", "a", ":", "i", "m", "a", "g", "e", "/", "j", "p", "e",
    "g", ";", "b", "a", "s", "e", "6", "4", ",">>

\* Step 6, lines 165-173: the userImage made of the file's content
Step6UserImage(fileContent) ==
  LET userImage == Trim(fileContent)
  IN IF StartsWith(userImage, UrlPngPrefix)
     THEN ReplaceFirst(ReplaceFirst(userImage, UrlPngPrefix, <<>>),
                       <<")">>, <<>>)
     ELSE IF StartsWith(userImage, PngPrefix)
     THEN ReplaceFirst(userImage, PngPrefix, <<>>)
     ELSE userImage

\* base64 texts of an image
Base64Texts == { <<"i", "V", "B">>, <<"Q", "k", "=">> }

\* contents of the image file: bare base64, a data URL, a data URL in a CSS
\* url(...) wrapper, of a PNG or of a JPEG, with and without a final newline
ImageFiles ==
  UNION { { b,
            b \o <<"\n">>,
            PngPrefix \o b,
            PngPrefix \o b \o <<"\n">>,
            <<"u", "r", "l", "(">> \o PngPrefix \o b \o <<")">>,
            JpegPrefix \o b,
            <<"u", "r", "l", "(">> \o JpegPrefix \o b \o <<")">> } :
          b \in Base64Texts }

\* the slots when Step 6 runs, as far as its payload reads them
SlotsAtStep6 ==
  [EmptySlots EXCEPT !["opportunityId"] = IssuedId(Idx("Step 3"))]

\* Step 6 run with one image file: what initPhotoVerification signs and sends
CallStep6 ==
  /\ Len(imgLog) < MaxImgCalls
  /\ \E fileContent \in ImageFiles, timestamp \in Timestamps :
       imgLog' =
         Append(imgLog,
                [file |-> fileContent,
                 request |->
                   HelperRequest(Idx("Step 6"),
                                 Args(NoParam,
                                      Body(Step6Body(SlotsAtStep6,
                                                     Step6UserImage(fileContent)))),
                                 timestamp)])
  /\ UNCHANGED <<valLog, pathLog, nonUtilVars>>

-----------------------------------------------------------------------------
(* The specifications: one part of the model runs, the others stay as      *)
(* they are after construction                                             *)

\* the journey
Init ==
  /\ InitJourney /\ InitSign /\ InitFlowIdle /\ InitHelpersIdle
  /\ InitClockIdle /\ InitUtil

Next == BeforeAll \/ Issue \/ Complete \/ Advance \/ Abort \/ AfterAll \/ Retry

Spec == Init /\ [][Next]_vars

\* every awaited HTTP call returns or throws (Complete), and the runner goes
\* on with whatever it has to do next (the other steps)
Fairness ==
  /\ WF_vars(Complete)
  /\ WF_vars(BeforeAll \/ Issue \/ Advance \/ Abort \/ AfterAll \/ Retry)

\* the journey from the fixture without overlapping keys: what the templates
\* hold goes into the payloads only and decides no step of the runner
InitLive == Init /\ fixture.request = PlainTemplate

SpecLive == InitLive /\ [][Next]_vars /\ Fairness

\* the signer
InitSigner ==
  /\ InitSign /\ InitJourneyIdle /\ InitFlowIdle /\ InitHelpersIdle
  /\ InitClockIdle /\ InitUtil

NextSigner == Sign

SpecSign == InitSigner /\ [][NextSigner]_vars

\* the LOS Login Flow group
InitLoginFlow ==
  /\ InitFlow /\ InitJourneyIdle /\ InitSign /\ InitHelpersIdle
  /\ InitClockIdle /\ InitUtil

NextLoginFlow == FlowBeforeAll \/ FlowTest \/ FlowEnd \/ FlowRetry

SpecLoginFlow == InitLoginFlow /\ [][NextLoginFlow]_vars

\* the helpers and their tokens
InitHelper ==
  /\ InitHelpers /\ InitJourneyIdle /\ InitSign /\ InitFlowIdle
  /\ InitClockIdle /\ InitUtil

NextHelper ==
  SetAuthToken \/ GetAuthToken \/ CallBuildHeaders \/ ApiCall \/ Login \/ Logout

SpecHelper == InitHelper /\ [][NextHelper]_vars

\* getCurrentTimestamp under a running clock
InitTimestamp ==
  /\ InitClock /\ InitJourneyIdle /\ InitSign /\ InitFlowIdle
  /\ InitHelpersIdle /\ InitUtil

NextTimestamp == TickClock \/ CallGetCurrentTimestamp

SpecTimestamp == InitTimestamp /\ [][NextTimestamp]_vars

\* generateDspAuthHeaders under a running clock
InitAuthHeaders ==
  /\ InitInstant /\ InitJourneyIdle /\ InitSign /\ InitFlowIdle
  /\ InitHelpersIdle /\ InitUtil

NextAuthHeaders == TickInstant \/ CallGenerateDspAuthHeaders

SpecAuthHeaders == InitAuthHeaders /\ [][NextAuthHeaders]_vars

\* validateStatus
InitValidate ==
  /\ InitUtil /\ InitJourneyIdle /\ InitSign /\ InitFlowIdle
  /\ InitHelpersIdle /\ InitClockIdle

NextValidate == CallValidateStatus

SpecValidate == InitValidate /\ [][NextValidate]_vars

\* replacePathParams
InitPath ==
  /\ InitUtil /\ InitJourneyIdle /\ InitSign /\ InitFlowIdle
  /\ InitHelpersIdle /\ InitClockIdle

NextPath == CallReplacePathParams

SpecPath == InitPath /\ [][NextPath]_vars

\* Step 6 with its image file
InitImage ==
  /\ InitUtil /\ InitJourneyIdle /\ InitSign /\ InitFlowIdle
  /\ InitHelpersIdle /\ InitClockIdle

NextImage == CallStep6

SpecImage == InitImage /\ [][NextImage]_vars

-----------------------------------------------------------------------------
(* Properties of the journey                                               *)

Json == request.data.json

S(name) == Idx(name)

\* C1: fail-fast.  Once a test of the serial group has failed in an attempt,
\* the group is at that test, failed or aborted, no later step has issued its
\* HTTP call in that attempt, and the failed state is left only for Aborted.
C1_FailFast ==
  /\ [](failedAt # 0 =>
          /\ phase \in {"Failed", "Aborted"}
          /\ cur = failedAt
          /\ \A k \in 1..Len(calls) : calls[k] <= failedAt)
  /\ [][phase = "Failed" => phase' = "Aborted" /\ calls' = calls]_vars

C1_Witness ==
  /\ phase = "Aborted"
  /\ failedAt = S("Step 3")
  /\ calls = <<1, 2, 3>>

\* C2: dependency invariant.  A step whose call is in flight was given no
\* unset slot: neither its path parameter nor any value of its payload is
\* undefined.
C2_DependenciesPopulated ==
  phase = "Executing" =>
    /\ request.param # Undef
    /\ \A k \in DOMAIN Json : Json[k] # Undef

\* where the claim expects each slot in a step's payload: <<key, slot>>
ThreadedKeys(i) ==
  LET n == StepName[i]
      opp == <<"opportunityId", "opportunityId">>
  IN CASE n \in {"Step 4", "Step 6", "Step 7", "Step 9", "Step 13", "Step 14.1"} ->
            {opp}
       [] n = "Step 11" ->
            {opp, <<"bankAccountVerificationId", "bankUtilityReferenceId">>}
       [] n = "Step 15" ->
            { <<"kfsRequest.emailVerificationLogId", "verificationLogReferenceId">>,
              <<"agreementRequest.kycReferenceId", "utilityReferenceId">>,
              <<"agreementRequest.additionalUtilityReferenceId",
                "additionalDataReferenceId">>,
              <<"agreementRequest.photoUtilityReferenceId",
                "photoVerificationReferenceId">>,
              <<"agreementRequest.bankAccountReferenceId",
                "bankUtilityReferenceId">> }
       [] n = "Step 15.1" ->
            {opp, <<"emailVerificationLogId", "verificationLogReferenceId">>}
       [] n = "Step 15.3" ->
            { opp,
              <<"kycReferenceId", "utilityReferenceId">>,
              <<"additionalUtilityReferenceId", "additionalDataReferenceId">>,
              <<"bankAccountReferenceId", "bankUtilityReferenceId">>,
              <<"kfsReferenceId", "newKfsReferenceId">>,
              <<"photoUtilityReferenceId", "photoVerificationReferenceId">> }
       [] n = "Step 16" ->
            { <<"BANK_ACCOUNT", "bankUtilityReferenceId">>,
              <<"AGREEMENT", "newAgreementReferenceId">>,
              <<"KFS", "newKfsReferenceId">>,
              <<"MANDATE", "mandateReferenceId">>,
              <<"ADDITIONAL_DATA", "additionalDataReferenceId">>,
              <<"KYC", "utilityReferenceId">>,
              <<"PHOTO_VERIFICATION", "photoVerificationReferenceId">>,
              <<"MOBILE_VERIFICATION_LOG", "mobileVerificationLogReferenceId">>,
              <<"EMAIL_VERIFICATION_LOG", "verificationLogReferenceId">> }
       [] OTHER -> {}

\* the slot the claim expects in a step's URL path, or "none"
ThreadedParam(i) ==
  LET n == StepName[i]
  IN CASE n = "Step 5" -> "utilityReferenceId"
       [] n = "Step 6.1" -> "photoVerificationReferenceId"
       [] n = "Step 8" -> "additionalDataReferenceId"
       [] n = "Step 10" -> "bankUtilityReferenceId"
       [] n = "Step 12" -> "mandateReferenceId"
       [] n = "Step 14" -> "verificationLogReferenceId"
       [] n \in {"Step 15", "Step 16"} -> "opportunityId"
       [] n = "Step 15.2" -> "newKfsReferenceId"
       [] n = "Step 15.4" -> "newAgreementReferenceId"
       [] OTHER -> "none"

\* C3: state threading.  Whatever the fixture template holds, the value a
\* step sends for a slot, in its payload or in its URL path, is the value the
\* producing step stored in that slot.
C3_StateThreading ==
  phase = "Executing" =>
    /\ \A t \in ThreadedKeys(cur) :
         t[1] \in DOMAIN Json /\ Json[t[1]] = slots[t[2]]
    /\ ThreadedParam(cur) # "none" => request.param = slots[ThreadedParam(cur)]

ConditionalSteps == {S("Step 7"), S("Step 15"), S("Step 15.1"), S("Step 15.3")}

\* the test at cur has run its assertions on an answer that passes every check
\* but carries no identifier
ValidButIdOmitted ==
  /\ phase \in {"Succeeded", "Failed"}
  /\ response.kind = "http"
  /\ response.status = ExpectedStatus
  /\ response.preOk
  /\ response.id = Undef
  /\ response.id2 = Undef

\* C7 as stated: in every conditional step an answer that omits the
\* identifier passes the step and leaves the slot unset.
C7_OptionalExtractionAsStated ==
  (cur \in ConditionalSteps /\ ValidButIdOmitted) =>
    /\ phase = "Succeeded"
    /\ slots[SlotOf(cur)] = Undef

\* C7: optional extraction.  In Step 15, 15.1 and 15.3, and in Step 7 unless
\* the fixture lists the identifier among the step's required fields, an
\* answer that omits the identifier passes the step, leaves the slot unset and
\* lets the next step start.
C7_OptionalExtraction ==
  (/\ cur \in ConditionalSteps
   /\ ValidButIdOmitted
   /\ ~(cur = S("Step 7") /\ fixture.requiresId7)) =>
    /\ phase = "Succeeded"
    /\ slots[SlotOf(cur)] = Undef
    /\ cur = S("Step 15") => slots["kfsReferenceId"] = Undef
    /\ ENABLED Advance

C7_Witness ==
  /\ cur = S("Step 15.1")
  /\ ValidButIdOmitted
  /\ phase = "Succeeded"
  /\ slots["newKfsReferenceId"] = Undef

MandatorySteps ==
  {S("Step 3"), S("Step 4"), S("Step 6"), S("Step 9"), S("Step 11"),
   S("Step 13"), S("Step 14.1")}

\* C8: mandatory extraction.  In the steps that must produce an identifier,
\* an answer without the identifier fails the step, and the failed step aborts
\* the workflow.
C8_MandatoryExtraction ==
  /\ []((/\ cur \in MandatorySteps
         /\ phase \in {"Succeeded", "Failed"}
         /\ response.kind = "http"
         /\ response.id = Undef) => phase = "Failed")
  /\ [][(phase = "Failed" /\ cur \in MandatorySteps) => phase' = "Aborted"]_vars

C8_Witness ==
  /\ cur = S("Step 6")
  /\ ValidButIdOmitted
  /\ phase = "Failed"

\* the transitions of the linear chain on <<phase, cur>>
LinearTransition ==
  \/ phase = "NotStarted" /\ phase' = "Pending" /\ cur' = 1
  \/ phase = "Pending" /\ phase' = "Executing" /\ cur' = cur
  \/ phase = "Executing" /\ phase' \in {"Succeeded", "Failed"} /\ cur' = cur
  \/ phase = "Succeeded" /\ phase' = "Pending" /\ cur' = cur + 1
  \/ phase = "Failed" /\ phase' = "Aborted" /\ cur' = cur
  \/ phase' = phase /\ cur' = cur

\* in one attempt the steps 1..k have each issued one call, in order
CallsInOrder == calls = [k \in 1..Len(calls) |-> k]

\* C9 as stated: the only transitions are those of the linear chain, every
\* step runs at most once and in order, and nothing is retried.
C9_LinearAsStated ==
  /\ []CallsInOrder
  /\ [][LinearTransition]_vars

\* C9: linear state machine.  Within one attempt the only transitions are
\* those of the linear chain and every step runs at most once and in order;
\* an aborted group is never run again when retries is 0 (no CI), and with CI
\* set the runner runs the whole group again from Step 1 with empty slots, at
\* most twice.
C9_Linear ==
  /\ [](CallsInOrder /\ attempt \in 0..2 /\ (~isCI => attempt = 0))
  /\ [][\/ LinearTransition
        \/ /\ phase = "Aborted" /\ phase' = "NotStarted"
           /\ isCI /\ attempt' = attempt + 1
           /\ slots' = EmptySlots /\ calls' = <<>>]_vars

C9_Witness ==
  /\ isCI
  /\ attempt = 2
  /\ phase = "Executing"
  /\ cur = 1

\* C10: latest value wins.  Once Step 15.1 and Step 15.3 have stored the
\* re-issued identifiers, the later steps send those (15.2 and 15.4 in the
\* URL, 15.3 and 16 in the payload), not the ones Step 15 stored.
C10_LatestWins ==
  phase = "Executing" =>
    /\ (cur = S("Step 15.2") /\ slots["newKfsReferenceId"] # Undef) =>
         /\ request.param = slots["newKfsReferenceId"]
         /\ request.param # slots["kfsReferenceId"]
    /\ (cur = S("Step 15.3") /\ slots["newKfsReferenceId"] # Undef) =>
         /\ Json["kfsReferenceId"] = slots["newKfsReferenceId"]
         /\ Json["kfsReferenceId"] # slots["kfsReferenceId"]
    /\ (cur = S("Step 15.4") /\ slots["newAgreementReferenceId"] # Undef) =>
         /\ request.param = slots["newAgreementReferenceId"]
         /\ request.param # slots["agreementReferenceId"]
    /\ (/\ cur = S("Step 16")
        /\ slots["newKfsReferenceId"] # Undef
        /\ slots["newAgreementReferenceId"] # Undef) =>
         /\ Json["KFS"] = slots["newKfsReferenceId"]
         /\ Json["KFS"] # slots["kfsReferenceId"]
         /\ Json["AGREEMENT"] = slots["newAgreementReferenceId"]
         /\ Json["AGREEMENT"] # slots["agreementReferenceId"]

C10_Witness ==
  /\ phase = "Executing"
  /\ cur = S("Step 16")
  /\ slots["kfsReferenceId"] = IssuedId2(S("Step 15"))
  /\ slots["agreementReferenceId"] = IssuedId(S("Step 15"))
  /\ Json["KFS"] = IssuedId(S("Step 15.1"))
  /\ Json["AGREEMENT"] = IssuedId(S("Step 15.3"))

-----------------------------------------------------------------------------
(* Properties of the signer                                                *)

Entries == {signLog[k] : k \in 1..Len(signLog)}

\* the signature over message m with key k
SignatureOf(k, m) ==
  [encoding |-> "base64", alg |-> "HMAC-SHA256", key |-> k, msg |-> m]

SameInputs(d, e) ==
  /\ d.timestamp = e.timestamp
  /\ d.secretKey = e.secretKey
  /\ d.requestBody = e.requestBody

\* C6: determinism of signing.  Any two calls with the same timestamp, key
\* and body return the same signature, whatever calls were made before or
\* between them.
C6_Deterministic ==
  \A j, k \in 1..Len(signLog) :
    SameInputs(signLog[j], signLog[k]) =>
      signLog[j].signature = signLog[k].signature

C6_Witness ==
  /\ Len(signLog) = 3
  /\ SameInputs(signLog[1], signLog[3])
  /\ ~SameInputs(signLog[1], signLog[2])
  /\ signLog[1].signature = signLog[3].signature

-----------------------------------------------------------------------------
(* Properties of the request contexts, the wire format and the clock       *)

\* C11: scoped context.  When the runner has finished the LOS Login Flow
\* group, passed or failed, the request context its beforeAll acquired has
\* been disposed.
C11_ScopedContext ==
  flow.phase \in {"FinishedPassed", "FinishedFailed"} => flow.context = "disposed"

\* C12: wire format.  Every request a step of the journey hands to the HTTP
\* layer carries Content-Type: application/json, a timestamp read at the
\* call under X-Timestamp and, under X-Signature, the signature of exactly
\* that timestamp and the body the step signed; no header the step's method
\* writes itself stands in their place.
C12_WireFormat ==
  request.step # 0 =>
    /\ {"Content-Type", "X-Timestamp", "X-Signature"} \subseteq DOMAIN request.headers
    /\ request.headers["Content-Type"] = "application/json"
    /\ request.headers["X-Timestamp"] \in Timestamps
    /\ request.headers["X-Signature"] =
         SignedHeaders(DspSecretKey, request.signed,
                       request.headers["X-Timestamp"])["X-Signature"]

C12_Witness ==
  /\ phase = "Executing"
  /\ cur = S("Step 15.2")
  /\ DOMAIN request.headers =
       {"Content-Type", "X-SourcingChannelCode", "requester", "X-Client-Ip",
        "X-Timestamp", "X-Signature"}
  /\ request.headers["X-Signature"].requestBody = request.data

HdrEntries == 1..Len(hdrLog)

SameKeyAndBody(d, e) ==
  d.secretKey = e.secretKey /\ d.requestBody = e.requestBody

\* C13 as stated: two calls of generateDspAuthHeaders with the same key and
\* body, made at two different instants, return different header pairs.
C13_DifferAcrossInstantsAsStated ==
  \A i \in HdrEntries, j \in HdrEntries :
    SameKeyAndBody(hdrLog[i], hdrLog[j]) /\ hdrLog[i].now # hdrLog[j].now
      => hdrLog[i].headers # hdrLog[j].headers

\* C13: two calls of generateDspAuthHeaders with the same key and body, made
\* at instants that lie in different UTC seconds, return different header
\* pairs; two such calls within one second return the same pair.
C13_DifferAcrossSeconds ==
  \A i \in HdrEntries, j \in HdrEntries :
    SameKeyAndBody(hdrLog[i], hdrLog[j]) =>
      (SecondOf(hdrLog[i].now) # SecondOf(hdrLog[j].now)
         <=> hdrLog[i].headers # hdrLog[j].headers)

C13_Witness ==
  /\ Len(hdrLog) = 2
  /\ SameKeyAndBody(hdrLog[1], hdrLog[2])
  /\ hdrLog[1].now.seconds # hdrLog[2].now.seconds
  /\ hdrLog[1].headers["X-Timestamp"] # hdrLog[2].headers["X-Timestamp"]
  /\ hdrLog[1].headers["X-Signature"] # hdrLog[2].headers["X-Signature"]

\* the UTF-16 code unit order of two decimal digits
DigitOf(ch) == CHOOSE d \in 1..10 : DigitChar[d] = ch

IsDigit(ch) == \E d \in 1..10 : DigitChar[d] = ch

RECURSIVE StrLess(_, _)

\* a < b on strings of digits, as JavaScript compares strings
StrLess(a, b) ==
  IF b = <<>> THEN FALSE
  ELSE IF a = <<>> THEN TRUE
  ELSE IF Head(a) # Head(b) THEN DigitOf(Head(a)) < DigitOf(Head(b))
  ELSE StrLess(Tail(a), Tail(b))

TsEntries == 1..Len(tsLog)

\* C14: timestamp format and monotonicity.  Every result of
\* getCurrentTimestamp is 14 decimal digits, and of two calls the later one,
\* made when the clock is not earlier, returns a string that is not smaller.
C14_FormatAndMonotone ==
  /\ \A i \in TsEntries :
       /\ Len(tsLog[i].result) = 14
       /\ \A k \in 1..Len(tsLog[i].result) : IsDigit(tsLog[i].result[k])
  /\ \A i \in TsEntries, j \in TsEntries :
       i < j /\ ~Earlier(tsLog[j].now, tsLog[i].now)
         => ~StrLess(tsLog[j].result, tsLog[i].result)

Count(seq, x) == Cardinality({ k \in 1..Len(seq) : seq[k] = x })

\* C15: transport failure handling.  When the HTTP layer threw during the
\* call of a step, the helper has logged the method, the URL, the headers and
\* the body of the request, the error has reached the test, which failed, and
\* the call was issued once.
C15_TransportFailure ==
  response.kind = "throw" =>
    /\ {"method", "url", "headers", "body"} \subseteq errorLog
    /\ failedAt = cur
    /\ Count(calls, cur) = 1

-----------------------------------------------------------------------------
(* Properties of the validators and the helpers                            *)

\* part occurs in str as a run of consecutive characters
Contains(str, part) == IndexOf(str, part) # 0

ValEntries == 1..Len(valLog)

\* C16: status mismatch error.  validateStatus returns normally exactly when
\* the status of the response equals the expected one; otherwise the message
\* of the error it throws contains the expected status, the actual status
\* and the serialized body; the response is the same after the call.
C16_StatusMismatch ==
  \A i \in ValEntries :
    LET e == valLog[i] IN
    /\ ~e.result.threw <=> e.response.status = e.expectedStatus
    /\ e.result.threw =>
         /\ Contains(e.result.message, ToDigits(e.expectedStatus))
         /\ Contains(e.result.message, ToDigits(e.response.status))
         /\ Contains(e.result.message, StringifyInMessage(e.response.body))
    /\ e.result.response = e.response

C16_Witness ==
  \E i \in ValEntries :
    /\ valLog[i].result.threw
    /\ valLog[i].response.status = 201
    /\ valLog[i].expectedStatus = 200
    /\ valLog[i].response.body.t = "object"
    /\ valLog[i].response.body.members # <<>>

\* a token is stored: neither the empty string nor undefined
HasToken(h) == helpers[h].authToken # "" /\ helpers[h].authToken # Undef

\* C17: auth token state.  A new helper holds the empty token; setAuthToken
\* stores its argument and getAuthToken returns what is stored; buildHeaders
\* yields Authorization: Bearer <token> exactly when a token is stored and
\* leaves the token as it is; an operation on one helper leaves the token of
\* every other helper as it is.
C17_AuthTokenState ==
  /\ [](lastOp = NoOp => \A h \in HelperIds : helpers[h].authToken = "")
  /\ [](lastOp.op \in {"setAuthToken", "getAuthToken"}
          => helpers[lastOp.h].authToken = lastOp.token)
  /\ [](lastOp.op = "buildHeaders" =>
          LET hs == lastOp.sent[1]
          IN /\ "Authorization" \in DOMAIN hs <=> HasToken(lastOp.h)
             /\ HasToken(lastOp.h) =>
                  hs["Authorization"] = "Bearer " \o helpers[lastOp.h].authToken)
  /\ [][lastOp'.op \in {"buildHeaders", "getAuthToken"} => helpers' = helpers]_vars
  /\ [][\A h \in HelperIds : h # lastOp'.h => helpers'[h] = helpers[h]]_vars

C17_Witness ==
  /\ lastOp.op = "buildHeaders"
  /\ lastOp.h = 1
  /\ helpers[1].authToken = "tokA"
  /\ helpers[2].authToken = "tokB"
  /\ lastOp.sent[1]["Authorization"] = "Bearer tokA"

\* C18: tokens are cleared on logout.  After logout() has ended, returned or
\* thrown, the helper holds the empty token.
C18_ClearedOnLogout ==
  lastOp.op = "logout" => helpers[lastOp.h].authToken = ""

\* C19: descriptive login failure.  When login() ends because a request of
\* the authentication answered with a non-OK status, it has rejected with the
\* message '<Pod> login failed: <status> - <serialized body>' and the token
\* of the helper is the one it held before the call.
C19_DescriptiveLoginFailure ==
  [][lastOp'.op = "login" /\ lastOp'.failed.kind = "http"
       /\ ~IsOk(lastOp'.failed.status)
     => /\ lastOp'.threw
        /\ lastOp'.message =
             FailedMessage(helpers[lastOp'.h].pod \o " login failed: ",
                           lastOp'.failed.status, lastOp'.failed.body)
        /\ helpers'[lastOp'.h].authToken = helpers[lastOp'.h].authToken]_vars

RECURSIVE ReplaceAll(_, _, _)

\* every occurrence of pat in str replaced by value
ReplaceAll(str, pat, value) ==
  LET i == IndexOf(str, pat)
  IN IF i = 0 THEN str
     ELSE SubSeq(str, 1, i - 1) \o value
            \o ReplaceAll(SubSeq(str, i + Len(pat), Len(str)), pat, value)

RECURSIVE AllReplaced(_, _)

\* the endpoint with every placeholder that has a key in params replaced
AllReplaced(endpoint, params) ==
  IF params = <<>> THEN endpoint
  ELSE AllReplaced(ReplaceAll(endpoint, Placeholder(Head(params)[1]),
                              Head(params)[2]),
                   Tail(params))

PathEntries == 1..Len(pathLog)

\* C20: path parameters.  replacePathParams returns the endpoint with every
\* occurrence of every placeholder that has a key in the map replaced by its
\* value and every other placeholder as it was; with the empty map it returns
\* the endpoint as it was.
C20_PathParams ==
  \A i \in PathEntries :
    /\ pathLog[i].result = AllReplaced(pathLog[i].endpoint, pathLog[i].params)
    /\ pathLog[i].params = <<>> => pathLog[i].result = pathLog[i].endpoint

-----------------------------------------------------------------------------
(* Properties of the journey's state, order and termination                *)

\* the slots the test at i assigns
SlotsWrittenBy(i) ==
  ({SlotOf(i)} \ {"none"})
    \cup (IF CaptureKind(i) = "conditionalPair" THEN {"kfsReferenceId"} ELSE {})

\* C21: single writer, single write.  Within one attempt a slot changes only
\* in the step that completes a test whose call returned a response, only
\* from unset, and only if that test is the one test that assigns the slot;
\* the only other change is the new worker of a retry unsetting every slot.
C21_SingleWriter ==
  [][\A k \in SlotNames :
       slots'[k] # slots[k] =>
         \/ /\ phase = "Aborted" /\ phase' = "NotStarted"
            /\ attempt' = attempt + 1
            /\ slots' = EmptySlots
         \/ /\ phase = "Executing"
            /\ attempt' = attempt
            /\ calls[Len(calls)] = cur
            /\ response'.kind = "http"
            /\ slots[k] = Undef
            /\ k \in SlotsWrittenBy(cur)
            /\ \A i \in 1..NumSteps : k \in SlotsWrittenBy(i) => i = cur]_vars

\* Step 14.1 has stored its identifier beside the eight stored before it
C21_Witness ==
  /\ phase = "Succeeded"
  /\ cur = S("Step 14.1")
  /\ slots["mobileVerificationLogReferenceId"] = IssuedId(S("Step 14.1"))
  /\ slots["verificationLogReferenceId"] = IssuedId(S("Step 13"))
  /\ slots["opportunityId"] = IssuedId(S("Step 3"))

\* C22: termination.  Every attempt that starts reaches Aborted or
\* Succeeded at Step 16 with its request context disposed, given that every
\* HTTP call returns or throws; and no attempt is left for the next one
\* before it is in that state.
C22_Termination ==
  /\ (phase = "NotStarted")
       ~> /\ phase = "Aborted" \/ (phase = "Succeeded" /\ cur = NumSteps)
          /\ apiContext = "disposed"
  /\ [][attempt' # attempt =>
          /\ attempt' = attempt + 1
          /\ phase = "Aborted"
          /\ apiContext = "disposed"]_vars

\* the last retry has failed and its context is disposed
C22_Witness ==
  /\ isCI
  /\ attempt = Retries(isCI)
  /\ phase = "Aborted"
  /\ apiContext = "disposed"
  /\ failedAt = S("Step 16")

\* C23: no overlap.  A call is issued only while none is in flight, by the
\* test the group is at, which has issued none before and comes after every
\* test that has; the group moves to test i+1 only from test i passed, that
\* is after its call returned and its assertions ran; and the slots change
\* only while that one test completes.
C23_NoOverlap ==
  /\ [][calls' # calls /\ attempt' = attempt =>
          /\ phase = "Pending" /\ phase' = "Executing"
          /\ response = NoResponse
          /\ calls' = Append(calls, cur)
          /\ \A k \in 1..Len(calls) : calls[k] < cur]_vars
  /\ [][cur' # cur /\ attempt' = attempt /\ cur # 0 =>
          /\ phase = "Succeeded"
          /\ response.kind = "http"
          /\ cur' = cur + 1
          /\ calls' = calls]_vars
  /\ [][slots' # slots /\ attempt' = attempt =>
          /\ phase = "Executing" /\ phase' # "Executing"
          /\ cur' = cur /\ calls' = calls]_vars
  /\ [](phase = "Executing" => calls # <<>> /\ calls[Len(calls)] = cur)

\* Step 2's call is in flight after Step 1's call has been answered
C23_Witness ==
  /\ phase = "Executing"
  /\ cur = 2
  /\ calls = <<1, 2>>
  /\ response = NoResponse

\* C24: fixture immutability.  No step of the journey, of the runner or of a
\* helper changes the loaded fixture: it is after every step what it was
\* before, also where the payload built from it carries other values.
C24_FixtureImmutable ==
  [][fixture' = fixture /\ fixture \in Fixtures]_vars

\* Step 14.1 sends the phone of the selected user under verifiedValue while
\* the template it spread still holds its own value
C24_Witness ==
  /\ phase = "Executing"
  /\ cur = S("Step 14.1")
  /\ fixture.request = OverlappingTemplate
  /\ Json["verifiedValue"] = selectedUser.phone
  /\ fixture.request["verifiedValue"] = "FIX-PHONE"
  /\ Json["amount"] = fixture.request["amount"]

-----------------------------------------------------------------------------
(* Properties of Step 6's image                                            *)

DataPrefix == <<"d", "a", "t", "a", ":">>

UrlOpen == <<"u", "r", "l", "(">>

\* the string begins with a data-URL prefix, bare or inside url(...)
HasDataUrlPrefix(str) ==
  StartsWith(str, DataPrefix) \/ StartsWith(str, UrlOpen \o DataPrefix)

\* the data of a data URL: what follows its first comma, without the url(...)
\* wrapper around it
WithoutDataUrlPrefix(str) ==
  LET inner == IF StartsWith(str, UrlOpen)
               THEN SubSeq(str, Len(UrlOpen) + 1,
                           IF str[Len(str)] = ")" THEN Len(str) - 1 ELSE Len(str))
               ELSE str
  IN SubSeq(inner, IndexOf(inner, <<",">>) + 1, Len(inner))

\* C25: image prefix stripping.  For every image string (the file's content,
\* trimmed) Step 6 was run with: the userImage signed is the userImage sent
\* and the signature header is that of the body sent; if the string begins
\* with a data-URL prefix the userImage is the string without the prefix and
\* without the url(...) wrapper; otherwise it is the string itself.
C25_ImagePrefixStripped ==
  \A k \in 1..Len(imgLog) :
    LET e == imgLog[k]
        str == Trim(e.file)
        sent == e.request.data.json["userImage"]
    IN /\ e.request.signed = e.request.data
       /\ e.request.headers["X-Signature"].requestBody = e.request.data
       /\ HasDataUrlPrefix(str) => sent = WithoutDataUrlPrefix(str)
       /\ ~HasDataUrlPrefix(str) => sent = str

-----------------------------------------------------------------------------
(* Properties of the signing headers                                       *)

\* C26: timestamp/signature consistency.  In every header pair that
\* generateDspAuthHeaders returned, X-Timestamp is the timestamp of the clock
\* value read when the call started and X-Signature is the signature of that
\* same X-Timestamp with the call's key and body, whatever the clock shows
\* when the call returns.
C26_TimestampSignatureConsistent ==
  \A i \in HdrEntries :
    LET e == hdrLog[i]
    IN /\ e.headers["X-Timestamp"] = GetCurrentTimestamp(e.now)
       /\ e.headers["X-Signature"] =
            GenerateSignature(e.headers["X-Timestamp"], e.secretKey,
                              e.requestBody)

\* a call during which the clock went on to the next second
C26_Witness ==
  \E i \in HdrEntries :
    /\ hdrLog[i].now.seconds # hdrLog[i].returnedAt.seconds
    /\ hdrLog[i].requestBody = JObject(<<>>)
    /\ hdrLog[i].headers["X-Timestamp"] # GetCurrentTimestamp(hdrLog[i].returnedAt)
    /\ hdrLog[i].headers["X-Signature"].msg =
         <<"{", "}", ".">> \o hdrLog[i].headers["X-Timestamp"]

-----------------------------------------------------------------------------
(* Properties of the slots around a failed step and at Step 16             *)

\* C27 as stated: a step that ends in Failed leaves every slot as it was.
C27_FailedStepWritesNothingAsStated ==
  [][phase = "Executing" /\ phase' = "Failed" => slots' = slots]_vars

\* the tests that go on asserting after they stored the identifier
ChecksAfterCapture ==
  {S("Step 6"), S("Step 9"), S("Step 11"), S("Step 13"), S("Step 14.1")}

\* C27: a step that ends in Failed changes no slot but its own, and its own
\* only in Steps 6, 9, 11, 13 and 14.1, when the response had the expected
\* status, passed the checks before the capture and carried an identifier,
\* and a check after the capture failed; the slot then holds that identifier.
C27_FailedStepWritesOwnSlotOnly ==
  [][phase = "Executing" /\ phase' = "Failed" =>
       \A k \in SlotNames :
         slots'[k] # slots[k] =>
           /\ cur \in ChecksAfterCapture
           /\ k = SlotOf(cur)
           /\ response'.kind = "http"
           /\ response'.status = ExpectedStatus
           /\ response'.preOk /\ ~response'.postOk
           /\ response'.id # Undef
           /\ slots'[k] = response'.id]_vars

\* Step 6 failed on a check after its capture: its slot is set
C27_Witness ==
  /\ phase = "Failed"
  /\ cur = S("Step 6")
  /\ ~response.postOk
  /\ slots["photoVerificationReferenceId"] = IssuedId(S("Step 6"))

\* the identifiers the steps before Step 16 can have captured
CapturedIds ==
  { IssuedId(i) : i \in 1..(NumSteps - 1) }
    \cup { IssuedId2(i) : i \in 1..(NumSteps - 1) }

\* C28: complete submission.  While Step 16's submit call is in flight, each
\* of the nine referenceId entries of its submittedDataList is an identifier
\* an earlier step captured: none is unset, none is null.
C28_CompleteSubmission ==
  phase = "Executing" /\ cur = S("Step 16") =>
    /\ DOMAIN Json =
         {"BANK_ACCOUNT", "AGREEMENT", "KFS", "MANDATE", "ADDITIONAL_DATA",
          "KYC", "PHOTO_VERIFICATION", "MOBILE_VERIFICATION_LOG",
          "EMAIL_VERIFICATION_LOG"}
    /\ \A k \in DOMAIN Json :
         Json[k] # Undef /\ Json[k] # Null /\ Json[k] \in CapturedIds

-----------------------------------------------------------------------------
(* Properties of makeRequest and of LOSHelper.login                        *)

Requests == 1..Len(lastOp.requests)

\* the ApiResponse of request c is the server's answer
IsAnswer(c) ==
  /\ ~c.result.threw
  /\ c.result.status = c.answer.status
  /\ c.result.body = c.answer.body
  /\ c.result.ok = (c.answer.status >= 200 /\ c.answer.status <= 299)

LoginEndpoints == <<"requestOtp", "verifyOtp", "getUserData">>

\* C30: LOS login ordering and no rollback.  LOSHelper.login() requests in
\* the order request-OTP, verify-OTP, fetch-user-data, makes a request only
\* after every earlier one was answered OK, and rejects when its last
\* request threw or was not OK or when verify-OTP brought no jwt.  If it got
\* to fetch-user-data, the helper holds the non-empty jwt of verify-OTP,
\* that request carried it as Bearer token, and it stays stored when the
\* request fails; otherwise the helper holds the token it held before.
C30_LoginOrderNoRollback ==
  [][lastOp'.op = "login" /\ helpers[lastOp'.h].pod = "LOS" =>
       LET rq == lastOp'.requests
           n == Len(rq)
           h == lastOp'.h
           jwt == rq[2].answer.token
       IN /\ n \in 1..3
          /\ \A k \in 1..n : rq[k].endpoint = LoginEndpoints[k]
          /\ \A k \in 1..(n - 1) : ~rq[k].result.threw /\ rq[k].result.ok
          /\ lastOp'.threw <=> (n < 3 \/ rq[n].result.threw \/ ~rq[n].result.ok)
          /\ n = 2 /\ ~rq[2].result.threw /\ rq[2].result.ok => ~Truthy(jwt)
          /\ IF n = 3
             THEN /\ Truthy(jwt)
                  /\ helpers'[h].authToken = jwt
                  /\ lastOp'.sent[3]["Authorization"] = "Bearer " \o jwt
             ELSE helpers'[h].authToken = helpers[h].authToken]_vars

\* login() threw at fetch-user-data and the jwt of verify-OTP is stored
C30_Witness ==
  /\ lastOp.op = "login"
  /\ helpers[lastOp.h].pod = "LOS"
  /\ lastOp.threw
  /\ Len(lastOp.requests) = 3
  /\ lastOp.requests[3].result.status = 500
  /\ helpers[lastOp.h].authToken = "tokA"
  /\ lastOp.message[1] = "Fetch user data failed: "

====
